---- MODULE Spec2Model ----
(***************************************************************************)
(* A model of the MediaWiki stream tokenizer (class CodeMirrorModeMediaWiki *)
(* and its StreamParser `mediawiki`) and of the fold range resolver         *)
(* (fold.ts).  A line is a sequence of one-character strings; the stream    *)
(* is the pair (str, pos) with pos counted from 0 as in StringStream.       *)
(* A continuation (the value of state.tokenize) is a record naming the      *)
(* function and the arguments its closure captured.                        *)
(***************************************************************************)
EXTENDS Integers, Sequences, FiniteSets, TLC

\* ------------------------------------------------------------------------
\* Bounds of the model
\* ------------------------------------------------------------------------
MaxPieces == 2
MaxTailPieces == 1
MaxLines == 2
MaxFed == 1
MaxName == 3
MaxArg == 2
MaxQuotePieces == 4
MaxText == 3
MaxHeadingLines == 3
MaxHtmlPieces == 2
MaxDepth == 4
MaxExtPieces == 3
MaxTildePieces == 6
MaxTablePieces == 5
MaxNest == 10
MaxSectionPieces == 2
MaxIndentLines == 3

\* ------------------------------------------------------------------------
\* Characters and character classes
\* ------------------------------------------------------------------------
Letters == {"a", "b", "c", "e", "f", "h", "i", "l", "o", "p", "r", "t", "x", "B"}
Digits == {"1"}
Space == {" "}
Punct == {"'", "{", "}", "|", "[", "]", "<", ">", "/", "=", "!", "-", "~",
          "_", "&", "#", ":", ";", "*", ".", "+"}
Alphabet == Letters \cup Digits \cup Space \cup Punct

\* \w of the regular expressions
WordCh == Letters \cup Digits \cup {"_"}
\* [a-f\d] with the i flag
HexCh == {"a", "b", "c", "f", "e"} \cup Digits

Not(C) == Alphabet \ C

\* String.prototype.toLowerCase
toLowerCase(s) == [i \in DOMAIN s |-> IF s[i] = "B" THEN "b" ELSE s[i]]

\* F applied to v: binds the result of a call to a name, as a local
\* constant of the code does
Let(v, F(_)) == F(v)

\* ------------------------------------------------------------------------
\* StringStream (the part of @codemirror/language the tokenizer calls)
\* ------------------------------------------------------------------------
Max(a, b) == IF a > b THEN a ELSE b
Min(a, b) == IF a < b THEN a ELSE b

\* string.charAt(i): the empty string outside the string
Ch(s, i) == IF i >= 0 /\ i < Len(s) THEN s[i + 1] ELSE ""

\* string.slice(from, to) for 0 <= from
Slice(s, from, to) == SubSeq(s, Max(from, 0) + 1, Min(to, Len(s)))

\* the number of consecutive characters of class C from index p on
Run(s, p, C) ==
    LET q == Max(p, 0)
        n == Len(s)
    IN  IF q >= n THEN 0
        ELSE (CHOOSE k \in q..n :
                 /\ \A i \in q..(k - 1) : s[i + 1] \in C
                 /\ (k = n \/ s[k + 1] \notin C)) - q

\* does the literal lit occur at index p
LitAt(s, p, lit) ==
    /\ p >= 0
    /\ p + Len(lit) <= Len(s)
    /\ \A i \in 1..Len(lit) : s[p + i] = lit[i]

\* string.indexOf(lit, p): -1 when absent
IndexOf(s, p, lit) ==
    LET q == Max(p, 0)
        hits == {k \in q..Len(s) : LitAt(s, k, lit)}
    IN  IF hits = {} THEN -1
        ELSE CHOOSE k \in hits : \A j \in hits : k <= j

\* stream.sol(), stream.eol(), stream.peek()
Sol(m) == m.pos = 0
Eol(m) == m.pos >= Len(m.str)
Peek(m) == Ch(m.str, m.pos)

\* the stream after consuming n characters (n < 0: stream.backUp)
Adv(m, n) == [m EXCEPT !.pos = @ + n]
\* stream.next(): nothing is consumed at the end of the line
Next1(m) == IF m.pos < Len(m.str) THEN Adv(m, 1) ELSE m
\* stream.skipToEnd()
SkipToEnd(m) == [m EXCEPT !.pos = Len(m.str)]
\* the length of the white space at the cursor (stream.eatSpace)
Sp(m) == Run(m.str, m.pos, Space)
\* stream.match( 'literal', false )
Looking(m, lit) == LitAt(m.str, m.pos, lit)

\* ------------------------------------------------------------------------
\* Configuration
\* ------------------------------------------------------------------------
\* modeConfig.tags: the style labels
tags ==
    [apostrophes |-> "character", apostrophesBold |-> "strong",
     apostrophesItalic |-> "emphasis", comment |-> "comment",
     doubleUnderscore |-> "controlKeyword", extLink |-> "url",
     extLinkBracket |-> "modifier", extLinkProtocol |-> "namespace",
     extLinkText |-> "labelName", hr |-> "contentSeparator",
     htmlTagAttribute |-> "attributeName", htmlTagBracket |-> "angleBracket",
     htmlTagName |-> "tagName", extTagAttribute |-> "attributeName",
     extTagBracket |-> "angleBracket", extTagName |-> "tagName",
     indenting |-> "operatorKeyword", linkBracket |-> "squareBracket",
     linkDelimiter |-> "operator", linkText |-> "string",
     linkToSection |-> "className", list |-> "list",
     parserFunction |-> "unit", parserFunctionBracket |-> "paren",
     parserFunctionDelimiter |-> "punctuation",
     parserFunctionName |-> "keyword", sectionHeader |-> "heading",
     sectionHeader1 |-> "heading1", sectionHeader2 |-> "heading2",
     sectionHeader3 |-> "heading3", sectionHeader4 |-> "heading4",
     sectionHeader5 |-> "heading5", sectionHeader6 |-> "heading6",
     signature |-> "quote", tableBracket |-> "null",
     tableDefinition |-> "definitionOperator",
     tableDelimiter |-> "typeOperator", template |-> "attributeValue",
     templateArgumentName |-> "definitionKeyword",
     templateBracket |-> "bracket", templateDelimiter |-> "separator",
     templateName |-> "moduleKeyword", templateVariable |-> "atom",
     templateVariableBracket |-> "brace",
     templateVariableName |-> "variableName", section |-> "mw-section",
     em |-> "mw-em", error |-> "mw-error", extTag |-> "mw-exttag",
     freeExtLink |-> "mw-free-extlink",
     freeExtLinkProtocol |-> "mw-free-extlink-protocol", link |-> "mw-link",
     linkPageName |-> "mw-link-pagename", pageName |-> "mw-pagename",
     skipFormatting |-> "mw-skipformatting", strong |-> "mw-strong",
     tableCaption |-> "mw-table-caption",
     templateVariableDelimiter |-> "mw-templatevariable-delimiter",
     pre |-> "mw-tag-pre", nowiki |-> "mw-tag-nowiki",
     htmlEntity |-> "mw-html-entity"]

\* modeConfig.permittedHtmlTags and implicitlyClosedHtmlTags (the names the
\* alphabet can spell)
permittedHtmlTags == {<<"b">>, <<"i">>, <<"b", "r">>, <<"h", "r">>}
implicitlyClosedHtmlTags == {<<"b", "r">>, <<"h", "r">>}

\* MwConfig, the input of the constructor: config.tags, config.tagModes,
\* config.functionSynonyms, config.doubleUnderscore, config.urlProtocols
configTags == {<<"p", "r", "e">>, <<"r", "e", "f">>, <<"x">>}
tagModes(name) ==
    CASE name = <<"p", "r", "e">> -> "mw-tag-pre"
      [] name = <<"r", "e", "f">> -> "text/mediawiki"
      [] OTHER -> "none"
functionSynonyms == << {<<"l", "c">>, <<"b">>}, {<<"!">>, <<"B", "a">>} >>
doubleUnderscore == << {<<"_", "_", "t", "_", "_">>}, {} >>
urlProtocols == << <<"h", "t", "t", "p", ":", "/", "/">>, <<"/", "/">> >>

\* stream.match( this.urlProtocols, false ): the length of the first
\* alternative that matches at index p, -1 when none does
MatchProto(s, p) ==
    LET hits == {i \in 1..Len(urlProtocols) : LitAt(s, p, urlProtocols[i])}
    IN  IF hits = {} THEN -1
        ELSE Len(urlProtocols[CHOOSE i \in hits : \A j \in hits : i <= j])

\* ------------------------------------------------------------------------
\* Continuations: the closures stored in state.tokenize and state.stack
\* ------------------------------------------------------------------------
\* the value of state.stack.pop() on an empty stack
Undefined == [fn |-> "undefined"]
KWiki(style) == [fn |-> "eatWikiText", style |-> style]
KBlock(style, terminator, consumeLast) ==
    [fn |-> "eatBlock", style |-> style, terminator |-> terminator,
     consumeLast |-> consumeLast]
KEnd(style) == [fn |-> "eatEnd", style |-> style]
KChar(char, style) == [fn |-> "eatChar", char |-> char, style |-> style]
KSection(count) == [fn |-> "eatSectionHeader", count |-> count]
\* a bound method without captured arguments: this.inLink.bind( this ) ...
KFn(name) == [fn |-> name]
KTemplatePageName(haveAte) == [fn |-> "eatTemplatePageName", haveAte |-> haveAte]
KTemplateArgument(expectArgName) ==
    [fn |-> "eatTemplateArgument", expectArgName |-> expectArgName]
KExternalLinkProtocol(chars) == [fn |-> "eatExternalLinkProtocol", chars |-> chars]
\* eatLinkText(): cell is the heap address of the closure's own variables
\* linkIsBold and linkIsItalic
KLinkText(cell) == [fn |-> "eatLinkText", cell |-> cell]
KTagName(chars, isCloseTag, isHtmlTag) ==
    [fn |-> "eatTagName", chars |-> chars, isCloseTag |-> isCloseTag,
     isHtmlTag |-> isHtmlTag]
KHtmlTagAttribute(name) == [fn |-> "eatHtmlTagAttribute", name |-> name]
KExtTagAttribute(name) == [fn |-> "eatExtTagAttribute", name |-> name]
KExtTagArea(name) == [fn |-> "eatExtTagArea", name |-> name]
KExtCloseTag(name) == [fn |-> "eatExtCloseTag", name |-> name]
\* origString: the full line, or <<"false">> for the value false
KExtTokens(origString) == [fn |-> "eatExtTokens", origString |-> origString]
KTableRow(isStart, isHead) ==
    [fn |-> "eatTableRow", isStart |-> isStart, isHead |-> isHead]
NoString == <<"false">>

\* ------------------------------------------------------------------------
\* The tokenizer state (interface State) and the mode instance
\* ------------------------------------------------------------------------
\* mediawiki.startState(); extState is a heap address, 0 for false
startState ==
    [tokenize |-> KWiki(<<>>), stack |-> <<>>, inHtmlTag |-> <<>>,
     extName |-> <<>>, extMode |-> "false", extState |-> 0,
     nTemplate |-> 0, nLink |-> 0, nExt |-> 0]

\* the state `{}` of the modes mw-tag-pre and mw-tag-nowiki
EmptyObject == [empty |-> TRUE]

\* The machine a call works on: the stream (str, pos), the state object the
\* call was given (st), the fields of the mode instance (constructor), the
\* heap of objects reached by reference (closure variables, nested
\* sub-states), the returned style (ret) and whether a TypeError was thrown.
NewMode ==
    [isBold |-> FALSE, wasBold |-> FALSE, isItalic |-> FALSE,
     wasItalic |-> FALSE, firstSingleLetterWord |-> 0,
     firstMultiLetterWord |-> 0, firstSpace |-> 0, oldStyle |-> <<>>,
     oldTokens |-> <<>>]

Ret(m, style) == [m EXCEPT !.ret = style]
SetTok(m, k) == [m EXCEPT !.st.tokenize = k]
\* state.stack.push( state.tokenize )
Push(m) == [m EXCEPT !.st.stack = Append(@, m.st.tokenize)]
\* state.tokenize = state.stack.pop()
Pop(m) ==
    IF Len(m.st.stack) = 0 THEN SetTok(m, Undefined)
    ELSE [m EXCEPT !.st.tokenize = m.st.stack[Len(m.st.stack)],
                   !.st.stack = SubSeq(@, 1, Len(@) - 1)]
\* a new object on the heap; its address is the new heap length
Alloc(m, obj) == [m EXCEPT !.heap = Append(@, obj)]

\* a composer that knows the depths 0, 1 and 2 or more
makeLocalStyleThree(m, style, endGround) ==
    LET st == m.st
        g1 == CASE st.nTemplate = 0 -> ""
                [] st.nTemplate = 1 -> "-template"
                [] OTHER -> "-template2"
        g2 == CASE st.nExt = 0 -> ""
                [] st.nExt = 1 -> "-ext"
                [] OTHER -> "-ext2"
        g3 == IF st.nLink > 0 THEN "-link" ELSE ""
        ground == g1 \o g2 \o g3
        styled == IF ground # "" THEN <<"mw" \o ground \o "-ground">> \o style
                  ELSE style
        m1 == CASE endGround = "nTemplate" -> [m EXCEPT !.st.nTemplate = @ - 1]
                [] endGround = "nLink" -> [m EXCEPT !.st.nLink = @ - 1]
                [] endGround = "nExt" -> [m EXCEPT !.st.nExt = @ - 1]
                [] OTHER -> m
    IN  [m1 EXCEPT !.ret = styled]

\* a composer that lowers the counter before it composes
makeLocalStyleAfter(m, style, endGround) ==
    LET st == CASE endGround = "nTemplate" -> [m.st EXCEPT !.nTemplate = @ - 1]
                [] endGround = "nLink" -> [m.st EXCEPT !.nLink = @ - 1]
                [] endGround = "nExt" -> [m.st EXCEPT !.nExt = @ - 1]
                [] OTHER -> m.st
        g1 == CASE st.nTemplate = 0 -> ""
                [] st.nTemplate = 1 -> "-template"
                [] st.nTemplate = 2 -> "-template2"
                [] OTHER -> "-template3"
        g2 == CASE st.nExt = 0 -> ""
                [] st.nExt = 1 -> "-ext"
                [] st.nExt = 2 -> "-ext2"
                [] OTHER -> "-ext3"
        g3 == IF st.nLink > 0 THEN "-link" ELSE ""
        ground == g1 \o g2 \o g3
        styled == IF ground # "" THEN <<"mw" \o ground \o "-ground">> \o style
                  ELSE style
    IN  [m EXCEPT !.st = st, !.ret = styled]

\* makeLocalStyle( style, state, endGround ); endGround "" when absent
makeLocalStyle(m, style, endGround) ==
    LET st == m.st
        g1 == CASE st.nTemplate = 0 -> ""
                [] st.nTemplate = 1 -> "-template"
                [] st.nTemplate = 2 -> "-template2"
                [] OTHER -> "-template3"
        g2 == CASE st.nExt = 0 -> ""
                [] st.nExt = 1 -> "-ext"
                [] st.nExt = 2 -> "-ext2"
                [] OTHER -> "-ext3"
        g3 == IF st.nLink > 0 THEN "-link" ELSE ""
        ground == g1 \o g2 \o g3
        styled == IF ground # "" THEN <<"mw" \o ground \o "-ground">> \o style
                  ELSE style
        m1 == CASE endGround = "nTemplate" -> [m EXCEPT !.st.nTemplate = @ - 1]
                [] endGround = "nLink" -> [m EXCEPT !.st.nLink = @ - 1]
                [] endGround = "nExt" -> [m EXCEPT !.st.nExt = @ - 1]
                [] OTHER -> m
    IN  Ret(m1, styled)

\* makeStyle( style, state, endGround )
makeStyle(m, style, endGround) ==
    LET s1 == IF m.isBold THEN Append(style, tags.strong) ELSE style
        s2 == IF m.isItalic THEN Append(s1, tags.em) ELSE s1
    IN  makeLocalStyle(m, s2, endGround)

\* eatHtmlEntity( stream, style ): the stream after the call, ret the style
eatHtmlEntity(m, style) ==
    LET semi(x) == IF Peek(x) = ";" THEN Ret(Adv(x, 1), <<tags.htmlEntity>>)
                   ELSE Ret(x, style)
        eatWhile(x, C) == Adv(x, Run(x.str, x.pos, C))
        \* ok = stream.eatWhile( C ) && stream.eat( ';' )
        tail(x, C) == IF Run(x.str, x.pos, C) > 0 THEN semi(eatWhile(x, C))
                      ELSE Ret(x, style)
    IN  IF Peek(m) = "#"
        THEN IF Ch(m.str, m.pos + 1) = "x" THEN tail(Adv(m, 2), HexCh)
             ELSE tail(Adv(m, 1), Digits)
        ELSE tail(m, WordCh \cup {".", "-", ":"})

\* ------------------------------------------------------------------------
\* Continuations that call no other continuation
\* ------------------------------------------------------------------------
\* eatBlock that stays in place behind the terminator
eatBlockStays(m, k) ==
    LET found == IndexOf(m.str, m.pos, k.terminator)
    IN  IF found > -1
        THEN LET m1 == [m EXCEPT !.pos = found]
                 m2 == IF k.consumeLast THEN Adv(m1, Len(k.terminator)) ELSE m1
             IN  makeLocalStyle(m2, k.style, "")
        ELSE makeLocalStyle(SkipToEnd(m), k.style, "")

\* eatBlock( style, terminator, consumeLast )
eatBlock(m, k) ==
    LET found == IndexOf(m.str, m.pos, k.terminator)
    IN  IF found > -1
        THEN LET m1 == [m EXCEPT !.pos = found]
                 m2 == IF k.consumeLast THEN Adv(m1, Len(k.terminator)) ELSE m1
             IN  makeLocalStyle(Pop(m2), k.style, "")
        ELSE makeLocalStyle(SkipToEnd(m), k.style, "")

\* eatEnd( style )
eatEnd(m, k) == makeLocalStyle(Pop(SkipToEnd(m)), k.style, "")

\* eatChar with the pop repeated on the error path
eatCharPopsAgain(m, k) ==
    LET m1 == Pop(m)
    IN  IF Peek(m1) = k.char THEN makeLocalStyle(Adv(m1, 1), k.style, "")
        ELSE makeLocalStyle(Pop(m1), <<tags.error>>, "")

\* eatChar( char, style )
eatChar(m, k) ==
    LET m1 == Pop(m)
    IN  IF Peek(m1) = k.char THEN makeLocalStyle(Adv(m1, 1), k.style, "")
        ELSE makeLocalStyle(m1, <<tags.error>>, "")

\* prepareItalicForCorrection that records the candidate behind a space
\* whatever is recorded
prepareItalicForCorrectionAnySpace(m) ==
    LET end == m.pos
        str == Slice(m.str, 0, end - 3)
        x1 == Ch(str, Len(str) - 1)
        x2 == Ch(str, Len(str) - 2)
        remember(x) == [x EXCEPT !.wasBold = x.isBold, !.wasItalic = x.isItalic]
    IN  IF x1 = " "
        THEN remember([m EXCEPT !.firstSpace = end])
        ELSE IF x2 = " "
        THEN remember([m EXCEPT !.firstSingleLetterWord = end])
        ELSE IF m.firstMultiLetterWord # 0 THEN m
        ELSE remember([m EXCEPT !.firstMultiLetterWord = end])

\* prepareItalicForCorrection( stream )
prepareItalicForCorrection(m) ==
    LET end == m.pos
        str == Slice(m.str, 0, end - 3)
        x1 == Ch(str, Len(str) - 1)
        x2 == Ch(str, Len(str) - 2)
        remember(x) == [x EXCEPT !.wasBold = x.isBold, !.wasItalic = x.isItalic]
    IN  IF x1 = " "
        THEN IF m.firstMultiLetterWord # 0 \/ m.firstSpace # 0 THEN m
             ELSE remember([m EXCEPT !.firstSpace = end])
        ELSE IF x2 = " "
        THEN remember([m EXCEPT !.firstSingleLetterWord = end])
        ELSE IF m.firstMultiLetterWord # 0 THEN m
        ELSE remember([m EXCEPT !.firstMultiLetterWord = end])

\* ------------------------------------------------------------------------
\* eatWikiText( style )
\* ------------------------------------------------------------------------
\* /^(={0,5})(.+?(=\1\s*)(<!--(?!.*-->.*\S).*)?)$/ matched at index p (after
\* the first `=`): whether it matches and the lengths of groups 1, 2 and 3
HeaderTailAt(s, j, k) ==
    LET n == Len(s)
        e == j + k + 1 + Run(s, j + k + 1, Space)
    IN  /\ j + k + 1 <= n
        /\ \A i \in j..(j + k) : Ch(s, i) = "="
        /\ \/ e = n
           \/ /\ LitAt(s, e, <<"<", "!", "-", "-">>)
              /\ ~ \E i \in (e + 4)..n :
                     /\ LitAt(s, i, <<"-", "-", ">">>)
                     /\ \E t \in (i + 3)..(n - 1) : Ch(s, t) \notin Space
HeaderMatch(s, p) ==
    LET n == Len(s)
        kmax == Min(5, Run(s, p, {"="}))
        ok == {k \in 0..kmax : \E j \in (p + k + 1)..n : HeaderTailAt(s, j, k)}
    IN  IF ok = {} THEN [ok |-> FALSE, g1 |-> 0, g2 |-> 0, g3 |-> 0]
        ELSE LET k == CHOOSE x \in ok : \A y \in ok : y <= x
                 js == {j \in (p + k + 1)..n : HeaderTailAt(s, j, k)}
                 j == CHOOSE x \in js : \A y \in js : x <= y
             IN  [ok |-> TRUE, g1 |-> k, g2 |-> n - (p + k),
                  g3 |-> k + 1 + Run(s, j + k + 1, Space)]

\* the last two statements of eatWikiText
WikiFinal(m, style) ==
    makeStyle(Adv(m, Run(m.str, m.pos,
                         Not({" ", "_", ">", "}", "[", "]", "<", "{", "'", "|",
                              "&", ":", "~", "="}))),
              style, "")

\* case "'" that skips the apostrophes in front of four, not five
WikiApostropheFour(m, style) ==
    LET r == Run(m.str, m.pos, {"'"})
    IN  IF r >= 4 THEN WikiFinal(Adv(m, r - 4), style)
        ELSE IF r = 3 THEN WikiFinal(m, style)
        ELSE IF r = 2
        THEN makeLocalStyle([Adv(m, 2) EXCEPT !.isBold = ~m.isBold],
                            <<tags.apostrophesBold>>, "")
        ELSE IF r = 1
        THEN makeLocalStyle([Adv(m, 1) EXCEPT !.isItalic = ~m.isItalic],
                            <<tags.apostrophesItalic>>, "")
        ELSE WikiFinal(m, style)

\* case "'" that takes an apostrophe on its own for an italic marker
WikiApostropheLone(m, style) ==
    LET r == Run(m.str, m.pos, {"'"})
    IN  IF r >= 5 THEN WikiFinal(Adv(m, r - 5), style)
        ELSE IF r = 3 THEN WikiFinal(m, style)
        ELSE IF r >= 2
        THEN makeLocalStyle([Adv(m, 2) EXCEPT !.isBold = ~m.isBold],
                            <<tags.apostrophesBold>>, "")
        ELSE makeLocalStyle([Adv(m, r) EXCEPT !.isItalic = ~m.isItalic],
                            <<tags.apostrophesItalic>>, "")

\* case "'"; the stream is behind the first apostrophe
WikiApostrophe(m, style) ==
    LET r == Run(m.str, m.pos, {"'"})
    IN  IF r >= 5 THEN WikiFinal(Adv(m, r - 5), style)
        ELSE IF r = 3 THEN WikiFinal(m, style)
        ELSE IF r >= 2
        THEN LET m1 == Adv(m, 2)
                 m2 == IF ~(m1.firstSingleLetterWord # 0
                            \/ Looking(m1, <<"'", "'">>))
                       THEN prepareItalicForCorrection(m1) ELSE m1
             IN  makeLocalStyle([m2 EXCEPT !.isBold = ~m2.isBold],
                                <<tags.apostrophesBold>>, "")
        ELSE IF r = 1
        THEN LET m1 == Adv(m, 1)
             IN  makeLocalStyle([m1 EXCEPT !.isItalic = ~m1.isItalic],
                                <<tags.apostrophesItalic>>, "")
        ELSE WikiFinal(m, style)

\* case '['
WikiBracket(m, style) ==
    IF Peek(m) = "["
    THEN LET m1 == Adv(m, 1)
             m2 == Adv(m1, Sp(m1))
         IN  IF Peek(m2) \notin {"", "]", "|", "["}
             THEN makeLocalStyle(
                      SetTok(Push([m2 EXCEPT !.st.nLink = @ + 1]), KFn("inLink")),
                      <<tags.linkBracket>>, "")
             ELSE WikiFinal(m2, style)
    ELSE LET mt == MatchProto(m.str, m.pos)
         IN  IF mt >= 0
             THEN makeLocalStyle(
                      SetTok(Push([m EXCEPT !.st.nLink = @ + 1]),
                             KExternalLinkProtocol(mt)),
                      <<tags.extLinkBracket>>, "")
             ELSE WikiFinal(m, style)

\* /^\{\{(?!\{|[^{}]*\}\}(?!\}))/ at the cursor
LooksLikeVariable(m) ==
    LET q == m.pos + 2 + Run(m.str, m.pos + 2, Not({"{", "}"}))
    IN  /\ Looking(m, <<"{", "{">>)
        /\ Ch(m.str, m.pos + 2) # "{"
        /\ ~(LitAt(m.str, q, <<"}", "}">>) /\ Ch(m.str, q + 2) # "}")

\* /^([^\s}[\]<{'|&:]+)(:|\s*)(\}\}?)?(.)?/ at the cursor: groups 1 to 4
FunctionName(m) ==
    LET s == m.str
        l1 == Run(s, m.pos, Not({" ", "}", "[", "]", "<", "{", "'", "|", "&", ":"}))
        p2 == m.pos + l1
        colon == Ch(s, p2) = ":"
        p3 == IF colon THEN p2 + 1 ELSE p2 + Run(s, p2, Space)
        l3 == IF Ch(s, p3) = "}" THEN (IF Ch(s, p3 + 1) = "}" THEN 2 ELSE 1) ELSE 0
    IN  [ok |-> l1 > 0, g1 |-> Slice(s, m.pos, p2), colon |-> colon,
         g3 |-> l3, g4 |-> Ch(s, p3 + l3)]

\* case '{' with both maps of the registry read in lower case
WikiBraceLowerCase(m, style) ==
    IF LooksLikeVariable(m)
    THEN LET m1 == Adv(m, 2)
             m2 == Adv(m1, Sp(m1))
         IN  makeLocalStyle(SetTok(Push(m2), KFn("inVariable")),
                            <<tags.templateVariableBracket>>, "")
    ELSE IF Peek(m) = "{" /\ ~(Ch(m.str, m.pos + 1) = "{" /\ Ch(m.str, m.pos + 2) # "{")
    THEN LET m1 == Adv(m, 1)
             m2 == Adv(m1, Sp(m1))
             openFunction ==
                 makeLocalStyle(
                     SetTok(Push([m2 EXCEPT !.st.nExt = @ + 1]),
                            KFn("inParserFunctionName")),
                     <<tags.parserFunctionBracket>>, "")
         IN  Let(FunctionName(m2), LAMBDA name :
             IF Peek(m2) = "#" THEN openFunction
             ELSE IF /\ name.ok
                     /\ (name.colon \/ name.g4 = "" \/ name.g3 = 2)
                     /\ (toLowerCase(name.g1) \in functionSynonyms[1]
                         \/ toLowerCase(name.g1) \in functionSynonyms[2])
             THEN openFunction
             ELSE makeLocalStyle(
                      SetTok(Push([m2 EXCEPT !.st.nTemplate = @ + 1]),
                             KTemplatePageName(FALSE)),
                      <<tags.templateBracket>>, ""))
    ELSE WikiFinal(m, style)

\* case '{'
WikiBrace(m, style) ==
    IF LooksLikeVariable(m)
    THEN LET m1 == Adv(m, 2)
             m2 == Adv(m1, Sp(m1))
         IN  makeLocalStyle(SetTok(Push(m2), KFn("inVariable")),
                            <<tags.templateVariableBracket>>, "")
    ELSE IF Peek(m) = "{" /\ ~(Ch(m.str, m.pos + 1) = "{" /\ Ch(m.str, m.pos + 2) # "{")
    THEN LET m1 == Adv(m, 1)
             m2 == Adv(m1, Sp(m1))
             openFunction ==
                 makeLocalStyle(
                     SetTok(Push([m2 EXCEPT !.st.nExt = @ + 1]),
                            KFn("inParserFunctionName")),
                     <<tags.parserFunctionBracket>>, "")
         IN  Let(FunctionName(m2), LAMBDA name :
             IF Peek(m2) = "#" THEN openFunction
             ELSE IF /\ name.ok
                     /\ (name.colon \/ name.g4 = "" \/ name.g3 = 2)
                     /\ (toLowerCase(name.g1) \in functionSynonyms[1]
                         \/ name.g1 \in functionSynonyms[2])
             THEN openFunction
             ELSE makeLocalStyle(
                      SetTok(Push([m2 EXCEPT !.st.nTemplate = @ + 1]),
                             KTemplatePageName(FALSE)),
                      <<tags.templateBracket>>, ""))
    ELSE WikiFinal(m, style)

\* /^[^>/\s.*,[\]{}$^+?|\\'`~<=!@#%&()-]+/
TagNameCh ==
    Not({">", "/", " ", ".", "*", "[", "]", "{", "}", "+", "|", "'", "~", "<",
         "=", "!", "#", "&", "-"})

\* case '<'
WikiAngle(m, style) ==
    LET isCloseTag == Peek(m) = "/"
        m1 == IF isCloseTag THEN Adv(m, 1) ELSE m
        len == Run(m1.str, m1.pos, TagNameCh)
        tagname == toLowerCase(Slice(m1.str, m1.pos, m1.pos + len))
        m2 == Adv(m1, len)
    IN  IF Looking(m2, <<"!", "-", "-">>)
        THEN \* chain( this.eatBlock( comment, '-->' ) )
             LET k == KBlock(<<tags.comment>>, <<"-", "-", ">">>, TRUE)
             IN  eatBlock(SetTok(Push(Adv(m2, 3)), k), k)
        ELSE IF len > 0 /\ tagname \in configTags
        THEN IF isCloseTag THEN Ret(m2, <<tags.error>>)
             ELSE makeLocalStyle(
                      SetTok(Push(Adv(m2, -len)), KTagName(len, isCloseTag, FALSE)),
                      <<tags.extTagBracket>>, "")
        ELSE IF len > 0 /\ tagname \in permittedHtmlTags
        THEN LET h == m2.st.inHtmlTag
                 \* state.inHtmlTag.pop() is evaluated for every close tag
                 top == IF Len(h) = 0 THEN <<"undefined">> ELSE h[Len(h)]
                 m3 == IF isCloseTag /\ Len(h) > 0
                       THEN [m2 EXCEPT !.st.inHtmlTag = SubSeq(h, 1, Len(h) - 1)]
                       ELSE m2
             IN  IF isCloseTag /\ tagname # top
                 THEN Ret(Adv(m3, 1), <<tags.error>>)
                 ELSE IF isCloseTag /\ tagname \in implicitlyClosedHtmlTags
                 THEN Ret(m3, <<tags.error>>)
                 ELSE makeLocalStyle(
                          SetTok(Push(Adv(m3, -len)),
                                 KTagName(len,
                                          isCloseTag
                                             \/ tagname \in implicitlyClosedHtmlTags,
                                          TRUE)),
                          <<tags.htmlTagBracket>>, "")
        ELSE WikiFinal(Adv(m2, -len), style)

\* case '_'
WikiUnderscore(m, style) ==
    LET tmp == 1 + Run(m.str, m.pos, {"_"})
        m1 == Adv(m, tmp - 1)
        C == Not({" ", ">", "}", "[", "]", "<", "{", "'", "|", "&", ":", "~"})
        \* /^([^\s>}[\]<{'|&:~]+?)__/: the lengths l of the lazy group
        ls == {l \in 1..Len(m1.str) :
                  /\ Run(m1.str, m1.pos, C) >= l
                  /\ LitAt(m1.str, m1.pos + l, <<"_", "_">>)}
        l == CHOOSE x \in ls : \A y \in ls : x <= y
        word == <<"_", "_">> \o Slice(m1.str, m1.pos, m1.pos + l + 2)
    IN  IF tmp > 2
        THEN makeStyle(IF ~Eol(m1) THEN Adv(m1, -2) ELSE m1, style, "")
        ELSE IF tmp = 2 /\ ls # {}
        THEN LET m2 == Adv(m1, l + 2)
             IN  IF toLowerCase(word) \in doubleUnderscore[1] \/ word \in doubleUnderscore[2]
                 THEN Ret(m2, <<tags.doubleUnderscore>>)
                 ELSE makeStyle(IF ~Eol(m2) THEN Adv(m2, -2) ELSE m2, style, "")
        ELSE WikiFinal(m1, style)

\* a signature of two to four tildes, the one at ch included
WikiTildeTwoToFour(m, style) ==
    LET r == Run(m.str, m.pos, {"~"})
    IN  IF r >= 1 THEN [Adv(m, Min(r, 3)) EXCEPT !.ret = <<tags.signature>>]
        ELSE [m EXCEPT !.ret = <<>>]

\* case '~': /^~{2,4}/ behind the tilde ch
WikiTilde(m, style) ==
    LET r == Run(m.str, m.pos, {"~"})
    IN  IF r >= 2 THEN Ret(Adv(m, Min(r, 4)), <<tags.signature>>)
        ELSE WikiFinal(m, style)

\* the second switch of eatWikiText; the stream is behind the character ch
WikiSwitch(m, ch, style) ==
    CASE ch = "&" -> LET e == eatHtmlEntity(m, style) IN makeStyle(e, e.ret, "")
      [] ch = "'" -> WikiApostrophe(m, style)
      [] ch = "[" -> WikiBracket(m, style)
      [] ch = "{" -> WikiBrace(m, style)
      [] ch = "<" -> WikiAngle(m, style)
      [] ch = "~" -> WikiTilde(m, style)
      [] ch = "_" -> WikiUnderscore(m, style)
      [] ch \in Space ->
            LET m1 == Adv(m, Sp(m))
            IN  IF MatchProto(m1.str, m1.pos) >= 0
                THEN IF Looking(m1, <<"/", "/">>)
                     THEN WikiFinal(Adv(m1, 2), style)
                     ELSE makeStyle(
                              SetTok(Push(m1), KFn("eatFreeExternalLinkProtocol")),
                              style, "")
                ELSE WikiFinal(m1, style)
      [] OTHER -> WikiFinal(m, style)

\* the first switch of eatWikiText (start of line), then the second
eatWikiText(m, style) ==
    LET sol == Sol(m)
        proto == MatchProto(m.str, m.pos)
        ch == Peek(m)
        m1 == Next1(m)
        s == m1.str
        p == m1.pos
        colons == Run(s, p, {":"})
        marks == Run(s, p, {"*", "#"})
        sp == Run(s, p, Space)
        spColons == Run(s, p + sp, {":"})
        table(x) == Ret(SetTok(Push(Adv(x, Sp(x))), KFn("inTableDefinition")),
                        <<tags.tableBracket>>)
    IN  Let(HeaderMatch(s, p), LAMBDA hd :
        IF sol /\ ~Looking(m, <<"/", "/">>) /\ proto >= 0
        THEN makeLocalStyle(SetTok(Push(Adv(m, proto)), KFn("eatFreeExternalLink")),
                            <<tags.freeExtLinkProtocol>>, "")
        ELSE IF sol /\ ch = "-" /\ Run(s, p, {"-"}) >= 3
        THEN Ret(Adv(m1, Run(s, p, {"-"})), <<tags.hr>>)
        ELSE IF sol /\ ch = "=" /\ hd.ok
        THEN Ret(SetTok(Push([m1 EXCEPT !.pos = Len(s) - hd.g2]), KSection(hd.g3)),
                 <<tags.sectionHeader,
                   CASE hd.g1 = 0 -> tags.sectionHeader1
                     [] hd.g1 = 1 -> tags.sectionHeader2
                     [] hd.g1 = 2 -> tags.sectionHeader3
                     [] hd.g1 = 3 -> tags.sectionHeader4
                     [] hd.g1 = 4 -> tags.sectionHeader5
                     [] OTHER -> tags.sectionHeader6>>)
        ELSE IF sol /\ ch \in {"*", "#"}
        THEN Ret(Adv(m1, marks + Run(s, p + marks, {":"})), <<tags.list>>)
        ELSE IF sol /\ ch = ":"
        THEN LET m2 == IF LitAt(s, p + colons, <<"{", "|">>)
                       THEN SetTok(Push(m1), KFn("eatStartTable")) ELSE m1
             IN  Ret(Adv(m2, colons + Run(s, p + colons, {"*", "#"})),
                     <<tags.indenting>>)
        ELSE IF sol /\ ch = " "
        THEN IF LitAt(s, p + sp + spColons, <<"{", "|">>)
             THEN IF spColons > 0
                  THEN Ret(SetTok(Push(Adv(m1, sp + spColons)), KFn("eatStartTable")),
                           <<tags.indenting>>)
                  ELSE table(Adv(m1, sp + 2))
             ELSE Ret(m1, <<tags.skipFormatting>>)
        ELSE IF sol /\ ch = "{"
                /\ (Peek(m1) = "|" \/ Looking(m1, <<"{", "{", "!", "}", "}">>))
        THEN table(Adv(m1, IF Peek(m1) = "|" THEN 1 ELSE 5))
        ELSE WikiSwitch(m1, ch, style))

\* ------------------------------------------------------------------------
\* The continuations of the constructs
\* ------------------------------------------------------------------------
\* return this.eatWikiText( style )( stream, state ): the continuation ends
\* in a call of eatWikiText, which Call makes
Wiki(m, style) == [m EXCEPT !.ret = style, !.fall = TRUE]

\* eatSectionHeader( count )
eatSectionHeader(m, k) ==
    LET r == Run(m.str, m.pos, Not({"&", "<", "[", "{", "~"}))
        m1 == Adv(m, r)
        n == Len(m1.str)
        \* /^<!--(?!.*?-->.*?=)/ without consuming
        trailing ==
            /\ Looking(m1, <<"<", "!", "-", "-">>)
            /\ ~ \E i \in (m1.pos + 4)..n :
                   /\ LitAt(m1.str, i, <<"-", "-", ">">>)
                   /\ \E t \in (i + 3)..(n - 1) : Ch(m1.str, t) = "="
    IN  IF r > 0
        THEN IF Eol(m1)
             THEN Ret(SetTok(Adv(m1, -k.count), KEnd(<<tags.sectionHeader>>)),
                      <<tags.section>>)
             ELSE IF trailing
             THEN Ret(SetTok(Adv(m1, -k.count),
                             KBlock(<<tags.sectionHeader>>, <<"<", "!", "-", "-">>,
                                    FALSE)),
                      <<tags.section>>)
             ELSE Ret(m1, <<tags.section>>)
        ELSE Wiki(m, <<tags.section>>)

\* a continuation that gives up where it is called: it takes itself off
\* and returns no style
inVariableAborts(m) == Ret(Pop(m), <<>>)

\* inVariable
inVariable(m) ==
    LET r == Run(m.str, m.pos, Not({"{", "}", "|"}))
    IN  IF r > 0
        THEN makeLocalStyle(Adv(m, r), <<tags.templateVariableName>>, "")
        ELSE IF Peek(m) = "|"
        THEN makeLocalStyle(SetTok(Adv(m, 1), KFn("inVariableDefault")),
                            <<tags.templateVariableDelimiter>>, "")
        ELSE IF Looking(m, <<"}", "}", "}">>)
        THEN makeLocalStyle(Pop(Adv(m, 3)), <<tags.templateVariableBracket>>, "")
        ELSE IF Looking(m, <<"{", "{", "{">>)
        THEN makeLocalStyle(Push(Adv(m, 3)), <<tags.templateVariableBracket>>, "")
        ELSE makeLocalStyle(Next1(m), <<tags.templateVariableName>>, "")

\* inVariableDefault
inVariableDefault(m) ==
    LET r == Run(m.str, m.pos, Not({"{", "}", "[", "<", "&", "~"}))
    IN  IF r > 0 THEN makeLocalStyle(Adv(m, r), <<tags.templateVariable>>, "")
        ELSE IF Looking(m, <<"}", "}", "}">>)
        THEN makeLocalStyle(Pop(Adv(m, 3)), <<tags.templateVariableBracket>>, "")
        ELSE Wiki(m, <<tags.templateVariable>>)

\* inParserFunctionName
inParserFunctionName(m) ==
    LET r == Run(m.str, m.pos, Not({":", "}", "{", "~"}))
    IN  IF r > 0 THEN makeLocalStyle(Adv(m, r), <<tags.parserFunctionName>>, "")
        ELSE IF Peek(m) = ":"
        THEN makeLocalStyle(SetTok(Adv(m, 1), KFn("inParserFunctionArguments")),
                            <<tags.parserFunctionDelimiter>>, "")
        ELSE IF Looking(m, <<"}", "}">>)
        THEN makeLocalStyle(Pop(Adv(m, 2)), <<tags.parserFunctionBracket>>, "nExt")
        ELSE Wiki(m, <<tags.parserFunction>>)

\* inParserFunctionArguments
inParserFunctionArguments(m) ==
    LET r == Run(m.str, m.pos, Not({"|", "}", "{", "[", "<", "&", "~"}))
    IN  IF r > 0 THEN makeLocalStyle(Adv(m, r), <<tags.parserFunction>>, "")
        ELSE IF Peek(m) = "|"
        THEN makeLocalStyle(Adv(m, 1), <<tags.parserFunctionDelimiter>>, "")
        ELSE IF Looking(m, <<"}", "}">>)
        THEN makeLocalStyle(Pop(Adv(m, 2)), <<tags.parserFunctionBracket>>, "nExt")
        ELSE Wiki(m, <<tags.parserFunction>>)

\* eatTemplatePageName that reads the words of a name as one token
eatTemplatePageNameWhole(m, k) ==
    LET s == m.str
        sp == Sp(m)
        q == m.pos + sp
        name == Run(s, q, Not({"|", "}", "<", "{", "&", "~"}))
    IN  IF Ch(s, q) = "|"
        THEN makeLocalStyle(
                 SetTok(Adv(m, sp + 1 + Run(s, q + 1, Space)), KTemplateArgument(TRUE)),
                 <<tags.templateDelimiter>>, "")
        ELSE IF LitAt(s, q, <<"}", "}">>)
        THEN makeLocalStyle(Pop(Adv(m, sp + 2)), <<tags.templateBracket>>, "nTemplate")
        ELSE IF k.haveAte /\ Sol(m)
        THEN Ret(Pop([m EXCEPT !.st.nTemplate = @ - 1]), <<>>)
        ELSE IF name > 0
        THEN makeLocalStyle(SetTok(Adv(m, sp + name), KTemplatePageName(TRUE)),
                            <<tags.templateName>>, "")
        ELSE Wiki(m, <<tags.templateName>>)

\* eatTemplatePageName( haveAte )
eatTemplatePageName(m, k) ==
    LET s == m.str
        sp == Sp(m)
        q == m.pos + sp
        \* /^\s*<!--.*?-->/: the index of the first `-->` behind `<!--`
        close == IndexOf(s, q + 4, <<"-", "-", ">">>)
        name == Run(s, q, Not({" ", "|", "}", "<", "{", "&", "~"}))
    IN  IF Ch(s, q) = "|"
        THEN makeLocalStyle(
                 SetTok(Adv(m, sp + 1 + Run(s, q + 1, Space)), KTemplateArgument(TRUE)),
                 <<tags.templateDelimiter>>, "")
        ELSE IF LitAt(s, q, <<"}", "}">>)
        THEN makeLocalStyle(Pop(Adv(m, sp + 2)), <<tags.templateBracket>>, "nTemplate")
        ELSE IF LitAt(s, q, <<"<", "!", "-", "-">>) /\ close > -1
        THEN makeLocalStyle([m EXCEPT !.pos = close + 3], <<tags.comment>>, "")
        ELSE IF k.haveAte /\ Sol(m)
        THEN Ret(Pop([m EXCEPT !.st.nTemplate = @ - 1]), <<>>)
        ELSE IF name > 0
        THEN makeLocalStyle(SetTok(Adv(m, sp + name), KTemplatePageName(TRUE)),
                            <<tags.templateName>>, "")
        ELSE IF sp > 0
        THEN makeLocalStyle(Adv(m, sp), <<tags.templateName>>, "")
        ELSE Wiki(m, <<tags.templateName>>)

\* eatTemplateArgument that gives the template up at the start of a line
eatTemplateArgumentAborts(m, k) ==
    LET r2 == Run(m.str, m.pos, Not({"|", "}", "{", "[", "<", "&", "~"}))
    IN  IF Sol(m)
        THEN Ret(Pop([m EXCEPT !.st.nTemplate = @ - 1]), <<>>)
        ELSE IF r2 > 0 THEN makeLocalStyle(Adv(m, r2), <<tags.template>>, "")
        ELSE IF Peek(m) = "|"
        THEN makeLocalStyle(SetTok(Adv(m, 1), KTemplateArgument(TRUE)),
                            <<tags.templateDelimiter>>, "")
        ELSE IF Looking(m, <<"}", "}">>)
        THEN makeLocalStyle(Pop(Adv(m, 2)), <<tags.templateBracket>>, "nTemplate")
        ELSE Wiki(m, <<tags.template>>)

\* eatTemplateArgument( expectArgName )
eatTemplateArgument(m, k) ==
    LET r1 == Run(m.str, m.pos, Not({"=", "|", "}", "{", "[", "<", "&", "~"}))
        r2 == Run(m.str, m.pos, Not({"|", "}", "{", "[", "<", "&", "~"}))
    IN  IF k.expectArgName /\ r1 > 0
        THEN IF Ch(m.str, m.pos + r1) = "="
             THEN makeLocalStyle(SetTok(Adv(m, r1 + 1), KTemplateArgument(FALSE)),
                                 <<tags.templateArgumentName>>, "")
             ELSE makeLocalStyle(Adv(m, r1), <<tags.template>>, "")
        ELSE IF r2 > 0 THEN makeLocalStyle(Adv(m, r2), <<tags.template>>, "")
        ELSE IF Peek(m) = "|"
        THEN makeLocalStyle(SetTok(Adv(m, 1), KTemplateArgument(TRUE)),
                            <<tags.templateDelimiter>>, "")
        ELSE IF Looking(m, <<"}", "}">>)
        THEN makeLocalStyle(Pop(Adv(m, 2)), <<tags.templateBracket>>, "nTemplate")
        ELSE Wiki(m, <<tags.template>>)

\* eatExternalLinkProtocol that, at the end of the line, counts the link
\* out but goes on into it
eatExternalLinkProtocolStays(m, k) ==
    LET m1 == [m EXCEPT !.pos = Min(Len(m.str), Max(m.pos, 0) + k.chars)]
    IN  IF Eol(m1)
        THEN makeLocalStyle(SetTok([m1 EXCEPT !.st.nLink = @ - 1],
                                   KFn("inExternalLink")),
                            <<tags.extLinkProtocol>>, "")
        ELSE makeLocalStyle(SetTok(m1, KFn("inExternalLink")),
                            <<tags.extLinkProtocol>>, "")

\* eatExternalLinkProtocol( chars )
eatExternalLinkProtocol(m, k) ==
    LET m1 == [m EXCEPT !.pos = Min(Len(m.str), Max(m.pos, 0) + k.chars)]
    IN  IF Eol(m1)
        THEN makeLocalStyle(Pop([m1 EXCEPT !.st.nLink = @ - 1]),
                            <<tags.extLinkProtocol>>, "")
        ELSE makeLocalStyle(SetTok(m1, KFn("inExternalLink")),
                            <<tags.extLinkProtocol>>, "")

\* a start-of-line abort that takes the continuation off the stack and
\* leaves nLink as it is
AbortLinkKeepsDepth(m) == Ret(Pop(m), <<>>)

\* the start-of-line abort shared by the link continuations
AbortLink(m) == Ret(Pop([m EXCEPT !.st.nLink = @ - 1]), <<>>)

\* inExternalLink
inExternalLink(m) ==
    LET sp == Sp(m)
        r == Run(m.str, m.pos, Not({" ", "]", "{", "&", "~", "'"}))
        m1 == Adv(m, r)
    IN  IF Sol(m) THEN AbortLink(m)
        ELSE IF Ch(m.str, m.pos + sp) = "]"
        THEN makeLocalStyle(Pop(Adv(m, sp + 1)), <<tags.extLinkBracket>>, "nLink")
        ELSE IF sp > 0
        THEN makeStyle(SetTok(Adv(m, sp), KFn("inExternalLinkText")), <<>>, "")
        ELSE IF r > 0
        THEN IF Peek(m1) = "'"
             THEN IF Looking(m1, <<"'", "'">>)
                  THEN makeStyle(SetTok(m1, KFn("inExternalLinkText")),
                                 <<tags.extLink>>, "")
                  ELSE makeStyle(Adv(m1, 1), <<tags.extLink>>, "")
             ELSE makeStyle(m1, <<tags.extLink>>, "")
        ELSE Wiki(m, <<tags.extLink>>)

\* inExternalLinkText
inExternalLinkText(m) ==
    LET r == Run(m.str, m.pos, Not({"'", "]", "{", "&", "~", "<"}))
    IN  IF Sol(m) THEN AbortLink(m)
        ELSE IF Peek(m) = "]"
        THEN makeLocalStyle(Pop(Adv(m, 1)), <<tags.extLinkBracket>>, "nLink")
        ELSE IF r > 0 THEN makeStyle(Adv(m, r), <<tags.extLinkText>>, "")
        ELSE Wiki(m, <<tags.extLinkText>>)

\* this.eatLinkText(): a new closure with its own linkIsBold, linkIsItalic
NewLinkText(m) ==
    LET m1 == Alloc(m, [linkIsBold |-> FALSE, linkIsItalic |-> FALSE])
    IN  SetTok(m1, KLinkText(Len(m1.heap)))

\* inLink
inLink(m) ==
    LET s == m.str
        sp == Sp(m)
        q == m.pos + sp
        r == Run(s, q, Not({" ", "#", "|", "]", "&", "~", "{"}))
        pageName == <<tags.linkPageName, tags.pageName>>
    IN  IF Sol(m) THEN AbortLink(m)
        ELSE IF Ch(s, q) = "#"
        THEN makeLocalStyle(
                 SetTok(Adv(m, sp + 1 + Run(s, q + 1, Space)), KFn("inLinkToSection")),
                 <<tags.link>>, "")
        ELSE IF Ch(s, q) = "|"
        THEN makeLocalStyle(NewLinkText(Adv(m, sp + 1 + Run(s, q + 1, Space))),
                            <<tags.linkDelimiter>>, "")
        ELSE IF LitAt(s, q, <<"]", "]">>)
        THEN makeLocalStyle(Pop(Adv(m, sp + 2)), <<tags.linkBracket>>, "nLink")
        ELSE IF r > 0 THEN makeStyle(Adv(m, sp + r), pageName, "")
        ELSE IF sp > 0 THEN makeStyle(Adv(m, sp), pageName, "")
        ELSE Wiki(m, pageName)

\* inLinkToSection
inLinkToSection(m) ==
    LET r == Run(m.str, m.pos, Not({"|", "]", "&", "~", "{", "}"}))
    IN  IF Sol(m) THEN AbortLink(m)
        ELSE IF r > 0 THEN makeLocalStyle(Adv(m, r), <<tags.linkToSection>>, "")
        ELSE IF Peek(m) = "|"
        THEN makeLocalStyle(NewLinkText(Adv(m, 1)), <<tags.linkDelimiter>>, "")
        ELSE IF Looking(m, <<"]", "]">>)
        THEN makeLocalStyle(Pop(Adv(m, 2)), <<tags.linkBracket>>, "nLink")
        ELSE Wiki(m, <<tags.linkToSection>>)

\* the closure returned by eatLinkText()
eatLinkText(m, k) ==
    LET c == m.heap[k.cell]
        r == Run(m.str, m.pos, Not({"'", "]", "{", "&", "~", "<"}))
        s1 == IF c.linkIsBold THEN <<tags.linkText, tags.strong>> ELSE <<tags.linkText>>
        tmpstyle == IF c.linkIsItalic THEN Append(s1, tags.em) ELSE s1
    IN  IF Looking(m, <<"]", "]">>)
        THEN makeLocalStyle(Pop(Adv(m, 2)), <<tags.linkBracket>>, "nLink")
        ELSE IF Looking(m, <<"'", "'", "'">>)
        THEN makeLocalStyle(
                 [Adv(m, 3) EXCEPT !.heap[k.cell].linkIsBold = ~c.linkIsBold],
                 <<tags.linkText, tags.apostrophes>>, "")
        ELSE IF Looking(m, <<"'", "'">>)
        THEN makeLocalStyle(
                 [Adv(m, 2) EXCEPT !.heap[k.cell].linkIsItalic = ~c.linkIsItalic],
                 <<tags.linkText, tags.apostrophes>>, "")
        ELSE IF r > 0 THEN makeStyle(Adv(m, r), tmpstyle, "")
        ELSE Wiki(m, tmpstyle)

\* a tag name whose extension tag counts as one level of state.nExt
eatTagNameDeeper(m, k) ==
    LET q == Min(Len(m.str), Max(m.pos, 0) + k.chars)
        m1 == [m EXCEPT !.pos = q, !.st.nExt = @ + 1]
        m2 == Adv(m1, Sp(m1))
    IN  makeLocalStyle(SetTok(m2, KExtTagAttribute(Slice(m.str, m.pos, q))),
                       <<tags.extTagName>>, "")

\* eatTagName( chars, isCloseTag, isHtmlTag )
eatTagName(m, k) ==
    LET q == Min(Len(m.str), Max(m.pos, 0) + k.chars)
        name == Slice(m.str, m.pos, q)
        m1 == [m EXCEPT !.pos = q]
        m2 == Adv(m1, Sp(m1))
    IN  IF k.isHtmlTag
        THEN makeLocalStyle(
                 SetTok(m2, IF k.isCloseTag /\ name \notin implicitlyClosedHtmlTags
                            THEN KChar(">", <<tags.htmlTagBracket>>)
                            ELSE KHtmlTagAttribute(name)),
                 <<tags.htmlTagName>>, "")
        ELSE makeLocalStyle(
                 SetTok(m2, IF k.isCloseTag THEN KChar(">", <<tags.extTagBracket>>)
                            ELSE KExtTagAttribute(name)),
                 <<tags.extTagName>>, "")

\* /^(?:"[^<">]*"|'[^<'>]*'|[^>/<{&~])+/ (lt: `<` ends a quoted value) and
\* /^(?:"[^">]*"|'[^'>]*'|[^>/<{&~])+/: the index behind the match from i
RECURSIVE AttributeEnd(_, _, _)
AttributeEnd(s, i, lt) ==
    LET c == Ch(s, i)
        inner == Not({c, ">"} \cup (IF lt THEN {"<"} ELSE {}))
        q == i + 1 + Run(s, i + 1, inner)
    IN  IF c \in {"\"", "'"} /\ Ch(s, q) = c THEN AttributeEnd(s, q + 1, lt)
        ELSE IF c # "" /\ c \notin {">", "/", "<", "{", "&", "~"}
        THEN AttributeEnd(s, i + 1, lt)
        ELSE i

\* attributes of an HTML tag whose `>` opens the tag whatever its name
eatHtmlTagAttributeOpensVoid(m, k) ==
    LET e == AttributeEnd(m.str, m.pos, TRUE)
    IN  IF e > m.pos
        THEN makeLocalStyle([m EXCEPT !.pos = e], <<tags.htmlTagAttribute>>, "")
        ELSE IF Peek(m) = ">"
        THEN makeLocalStyle(Pop(Adv([m EXCEPT !.st.inHtmlTag = Append(@, k.name)], 1)),
                            <<tags.htmlTagBracket>>, "")
        ELSE IF Looking(m, <<"/", ">">>)
        THEN makeLocalStyle(Pop(Adv(m, 2)), <<tags.htmlTagBracket>>, "")
        ELSE [m EXCEPT !.fall = TRUE, !.ret = <<tags.htmlTagAttribute>>]

\* eatHtmlTagAttribute( name )
eatHtmlTagAttribute(m, k) ==
    LET e == AttributeEnd(m.str, m.pos, TRUE)
    IN  IF e > m.pos
        THEN makeLocalStyle([m EXCEPT !.pos = e], <<tags.htmlTagAttribute>>, "")
        ELSE IF Peek(m) = ">"
        THEN LET m1 == IF k.name \notin implicitlyClosedHtmlTags
                       THEN [m EXCEPT !.st.inHtmlTag = Append(@, k.name)] ELSE m
             IN  makeLocalStyle(Pop(Adv(m1, 1)), <<tags.htmlTagBracket>>, "")
        ELSE IF Looking(m, <<"/", ">">>)
        THEN makeLocalStyle(Pop(Adv(m, 2)), <<tags.htmlTagBracket>>, "")
        ELSE Wiki(m, <<tags.htmlTagAttribute>>)

\* extMode.startState( 0 ) of the mode registered for an extension tag
SubStartState(mode) == IF mode = "text/mediawiki" THEN startState ELSE EmptyObject

\* eatExtTagAttribute( name )
eatExtTagAttribute(m, k) ==
    LET e == AttributeEnd(m.str, m.pos, FALSE)
        mode == tagModes(k.name)
    IN  IF e > m.pos
        THEN makeLocalStyle([m EXCEPT !.pos = e], <<tags.extTagAttribute>>, "")
        ELSE IF Peek(m) = ">"
        THEN LET m1 == [Adv(m, 1) EXCEPT !.st.extName = k.name]
                 m2 == IF mode # "none"
                       THEN LET a == Alloc(m1, SubStartState(mode))
                            IN  [a EXCEPT !.st.extMode = mode,
                                          !.st.extState = Len(a.heap)]
                       ELSE m1
             IN  makeLocalStyle(SetTok(m2, KExtTagArea(k.name)),
                                <<tags.extTagBracket>>, "")
        ELSE IF Looking(m, <<"/", ">">>)
        THEN makeLocalStyle(Pop(Adv(m, 2)), <<tags.extTagBracket>>, "")
        ELSE Wiki(m, <<tags.extTagAttribute>>)

\* eatExtCloseTag( name )
eatExtCloseTag(m, k) ==
    makeLocalStyle(SetTok(Next1(Next1(m)), KTagName(Len(k.name), TRUE, FALSE)),
                   <<tags.extTagBracket>>, "")

\* eatNowiki( style ), the token function of mw-tag-pre and mw-tag-nowiki
eatNowiki(m, style) ==
    LET r == Run(m.str, m.pos, Not({"&"}))
    IN  IF r > 0 THEN Ret(Adv(m, r), style)
        ELSE eatHtmlEntity(Next1(m), style)

\* eatStartTable
eatStartTable(m) ==
    LET m1 == IF Looking(m, <<"{", "|">>) THEN Adv(m, 2) ELSE m
    IN  Ret(SetTok(Adv(m1, Sp(m1)), KFn("inTableDefinition")), <<tags.tableBracket>>)

\* inTable
inTable(m) ==
    LET m1 == Adv(m, Sp(m))
        c1 == Peek(m1)
        c2 == Ch(m1.str, m1.pos + 1)
        eatSpace(x) == Adv(x, Sp(x))
        delimiter(x, k) == makeLocalStyle(SetTok(x, k), <<tags.tableDelimiter>>, "")
    IN  IF Sol(m) /\ c1 = "|"
        THEN IF c2 = "-"
             THEN delimiter(eatSpace(Adv(m1, 2)), KFn("inTableDefinition"))
             ELSE IF c2 = "+"
             THEN delimiter(eatSpace(Adv(m1, 2)), KFn("inTableCaption"))
             ELSE IF c2 = "}"
             THEN makeLocalStyle(Pop(Adv(m1, 2)), <<tags.tableBracket>>, "")
             ELSE delimiter(eatSpace(Adv(m1, 1)), KTableRow(TRUE, FALSE))
        ELSE IF Sol(m) /\ c1 = "!"
        THEN delimiter(eatSpace(Adv(m1, 1)), KTableRow(TRUE, TRUE))
        ELSE Wiki(IF Sol(m) THEN m1 ELSE m, <<>>)

\* inTableDefinition
inTableDefinition(m) ==
    IF Sol(m) THEN inTable(SetTok(m, KFn("inTable")))
    ELSE Wiki(m, <<tags.tableDefinition>>)

\* /^\s*[|!]/ at the cursor, without consuming
RowStart(m) == Ch(m.str, m.pos + Sp(m)) \in {"|", "!"}

\* inTableCaption
inTableCaption(m) ==
    IF Sol(m) /\ RowStart(m) THEN inTable(SetTok(m, KFn("inTable")))
    ELSE Wiki(m, <<tags.tableCaption>>)

\* eatTableRow( isStart, isHead )
eatTableRow(m, k) ==
    LET r == Run(m.str, m.pos, Not({"'", "|", "{", "[", "<", "&", "~", "!"}))
        tag == IF k.isHead THEN <<tags.strong>> ELSE <<>>
        len == IF Looking(m, <<"|", "|">>) THEN 2
               ELSE IF k.isHead /\ Looking(m, <<"!", "!">>) THEN 2
               ELSE IF k.isStart /\ Peek(m) = "|" THEN 1
               ELSE 0
        m1 == [Adv(m, len) EXCEPT !.isBold = FALSE, !.isItalic = FALSE]
    IN  IF Sol(m)
        THEN IF RowStart(m) THEN inTable(SetTok(m, KFn("inTable")))
             ELSE Wiki(m, tag)
        ELSE IF r > 0 THEN makeStyle(Adv(m, r), tag, "")
        ELSE IF len > 0
        THEN makeLocalStyle(
                 IF k.isStart THEN SetTok(m1, KTableRow(FALSE, k.isHead)) ELSE m1,
                 <<tags.tableDelimiter>>, "")
        ELSE Wiki(m, tag)

\* eatFreeExternalLinkProtocol
eatFreeExternalLinkProtocol(m) ==
    makeLocalStyle(SetTok(Adv(m, Max(MatchProto(m.str, m.pos), 0)),
                          KFn("eatFreeExternalLink")),
                   <<tags.freeExtLinkProtocol>>, "")

\* eatFreeExternalLink
eatFreeExternalLink(m) ==
    LET stop == {" ", "{", "[", "]", "<", ">", "~", ")", ".", ",", "'"}
        m1 == Adv(m, Run(m.str, m.pos, Not(stop)))
        c == Peek(m1)
        tildes == Run(m1.str, m1.pos, {"~"})
        dots == Run(m1.str, m1.pos, {")", ".", ","})
        after == Ch(m1.str, m1.pos + dots)
        link(x) == makeLocalStyle(x, <<tags.freeExtLink>>, "")
    IN  IF Eol(m) THEN link(Pop(m))
        ELSE IF c = "~" /\ tildes < 3 THEN link(Adv(m1, tildes))
        ELSE IF c = "{" /\ ~Looking(m1, <<"{", "{">>) THEN link(Adv(m1, 1))
        ELSE IF c = "'" /\ ~Looking(m1, <<"'", "'">>) THEN link(Adv(m1, 1))
        ELSE IF /\ c \notin {"~", "{", "'"} /\ dots > 0 /\ after # ""
                /\ after \notin stop \ {"'"}
        THEN link(Adv(m1, dots))
        ELSE link(Pop(m1))

\* the index of the first match of new RegExp( `</${ name }\\s*>`, 'i' ) at
\* or behind index from, -1 when there is none
CloseTagIndex(s, from, name) ==
    LET at(i) == /\ LitAt(s, i, <<"<", "/">> \o name)
                 /\ Ch(s, i + 2 + Len(name)
                           + Run(s, i + 2 + Len(name), Space)) = ">"
        hits == {i \in from..Len(s) : at(i)}
    IN  IF hits = {} THEN -1 ELSE CHOOSE i \in hits : \A j \in hits : i <= j

\* ------------------------------------------------------------------------
\* copyState
\* ------------------------------------------------------------------------
\* copyState( state ): arrays are copied, every other value (the closures,
\* the reference extState) is shared
copyState(state) ==
    [tokenize |-> state.tokenize,
     stack |-> [i \in 1..Len(state.stack) |-> state.stack[i]],
     inHtmlTag |-> [i \in 1..Len(state.inHtmlTag) |-> state.inHtmlTag[i]],
     extName |-> state.extName, extMode |-> state.extMode,
     extState |-> state.extState, nTemplate |-> state.nTemplate,
     nLink |-> state.nLink, nExt |-> state.nExt]

\* does the mode object define copyState: only mediawiki / text/mediawiki
HasCopyState(mode) == mode = "text/mediawiki"

\* mediawiki.copyState( state ) on the heap h: the new state and the heap
\* with the copy of the nested sub-state
RECURSIVE mediawikiCopyState(_, _)
mediawikiCopyState(h, state) ==
    LET newState == copyState(state)
    IN  IF state.extMode # "false" /\ HasCopyState(state.extMode)
        THEN LET sub == mediawikiCopyState(h, h[state.extState])
                 h2 == Append(sub.heap, sub.state)
             IN  [heap |-> h2, state |-> [newState EXCEPT !.extState = Len(h2)]]
        ELSE [heap |-> h, state |-> newState]

\* ------------------------------------------------------------------------
\* mediawiki.token and the delegation to the sub-language
\* ------------------------------------------------------------------------
RECURSIVE token(_), Call(_), TokenLoop(_, _, _, _, _)

\* eatExtTokens( origString )
eatExtTokens(m, k) ==
    LET id == m.st.extState
        \* state.extMode.token( stream, state.extState )
        inner == IF m.st.extMode = "text/mediawiki"
                 THEN token([m EXCEPT !.st = m.heap[id]])
                 ELSE eatNowiki(m, <<tags.pre>>)
        \* modeConfig.tags[ state.extName ]: only pre and nowiki are keys
        own == IF m.st.extName = <<"p", "r", "e">> THEN tags.pre ELSE "undefined"
        m1 == IF m.st.extMode = "false" THEN Ret(SkipToEnd(m), <<tags.extTag>>)
              ELSE IF m.st.extMode = "text/mediawiki"
              THEN [inner EXCEPT !.st = m.st, !.heap[id] = inner.st,
                                 !.ret = <<own>> \o inner.ret]
              ELSE Ret(inner, <<own>> \o inner.ret)
        m2 == IF Eol(m1)
              THEN Pop(IF k.origString # NoString
                       THEN [m1 EXCEPT !.str = k.origString] ELSE m1)
              ELSE m1
    IN  makeLocalStyle(m2, m1.ret, "")

\* eatExtTagArea( name )
eatExtTagArea(m, k) ==
    LET from == m.pos
        to == CloseTagIndex(m.str, from, k.name)
        closing == [SetTok(m, KExtCloseTag(k.name))
                       EXCEPT !.st.extName = <<>>, !.st.extMode = "false",
                              !.st.extState = 0]
        origString == IF to > -1 THEN m.str ELSE NoString
        m1 == IF to > -1 THEN [m EXCEPT !.str = Slice(m.str, 0, to)] ELSE m
    IN  IF to = from THEN eatExtCloseTag(closing, closing.st.tokenize)
        ELSE eatExtTokens(SetTok(Push(m1), KExtTokens(origString)),
                          KExtTokens(origString))

\* state.tokenize( stream, state )
Continuation(m) ==
    LET k == m.st.tokenize
        fn == k.fn
    IN  CASE fn = "eatWikiText" -> Wiki(m, k.style)
          [] fn = "eatBlock" -> eatBlock(m, k)
          [] fn = "eatEnd" -> eatEnd(m, k)
          [] fn = "eatChar" -> eatChar(m, k)
          [] fn = "eatSectionHeader" -> eatSectionHeader(m, k)
          [] fn = "inVariable" -> inVariable(m)
          [] fn = "inVariableDefault" -> inVariableDefault(m)
          [] fn = "inParserFunctionName" -> inParserFunctionName(m)
          [] fn = "inParserFunctionArguments" -> inParserFunctionArguments(m)
          [] fn = "eatTemplatePageName" -> eatTemplatePageName(m, k)
          [] fn = "eatTemplateArgument" -> eatTemplateArgument(m, k)
          [] fn = "eatExternalLinkProtocol" -> eatExternalLinkProtocol(m, k)
          [] fn = "inExternalLink" -> inExternalLink(m)
          [] fn = "inExternalLinkText" -> inExternalLinkText(m)
          [] fn = "inLink" -> inLink(m)
          [] fn = "inLinkToSection" -> inLinkToSection(m)
          [] fn = "eatLinkText" -> eatLinkText(m, k)
          [] fn = "eatTagName" -> eatTagName(m, k)
          [] fn = "eatHtmlTagAttribute" -> eatHtmlTagAttribute(m, k)
          [] fn = "eatExtTagAttribute" -> eatExtTagAttribute(m, k)
          [] fn = "eatExtTagArea" -> eatExtTagArea(m, k)
          [] fn = "eatExtCloseTag" -> eatExtCloseTag(m, k)
          [] fn = "eatExtTokens" -> eatExtTokens(m, k)
          [] fn = "eatStartTable" -> eatStartTable(m)
          [] fn = "inTableDefinition" -> inTableDefinition(m)
          [] fn = "inTableCaption" -> inTableCaption(m)
          [] fn = "inTable" -> inTable(m)
          [] fn = "eatTableRow" -> eatTableRow(m, k)
          [] fn = "eatFreeExternalLinkProtocol" -> eatFreeExternalLinkProtocol(m)
          [] fn = "eatFreeExternalLink" -> eatFreeExternalLink(m)
          \* calling undefined throws a TypeError
          [] OTHER -> [m EXCEPT !.err = TRUE, !.ret = <<>>]

\* the history of the calls of continuations: m is the machine before the call, r the machine when
\* eatWikiText( r.ret ) took over (r.fall) and e the machine on return; plain
\* is the style eatWikiText( r.ret ) gives to plain text
Logged(m, r, e) ==
    [e EXCEPT !.calls =
        Append(m.calls,
               [fn |-> m.st.tokenize.fn, state |-> m.st,
                cont |-> IF r.fall THEN r.st.tokenize ELSE m.st.tokenize,
                from |-> m.pos, to |-> e.pos, style |-> e.ret, wiki |-> r.fall,
                plain |-> IF r.fall THEN makeStyle(r, r.ret, "").ret ELSE <<>>,
                bold |-> <<m.isBold, e.isBold>>,
                italic |-> <<m.isItalic, e.isItalic>>,
                first |-> << <<m.firstSingleLetterWord, m.firstMultiLetterWord,
                               m.firstSpace>>,
                             <<e.firstSingleLetterWord, e.firstMultiLetterWord,
                               e.firstSpace>> >>])]

Call(m) ==
    Let(Continuation(m),
        LAMBDA r : Logged(m, r, IF r.fall
                                THEN eatWikiText([r EXCEPT !.fall = FALSE], r.ret)
                                ELSE r))

\* the value of f: firstSingleLetterWord || firstMultiLetterWord || firstSpace
RollbackPoint(m) ==
    IF m.firstSingleLetterWord # 0 THEN m.firstSingleLetterWord
    ELSE IF m.firstMultiLetterWord # 0 THEN m.firstMultiLetterWord
    ELSE m.firstSpace

\* the tail of mediawiki.token that forgets the tokens saved in front of the
\* latest candidate
TokenEndDropsReady(m, tmpTokens, readyTokens) ==
    LET first(x) == [x EXCEPT !.pos = x.oldTokens[1].pos,
                              !.ret = x.oldTokens[1].style,
                              !.oldTokens = Tail(x.oldTokens)]
        restored == [m EXCEPT !.isItalic = m.wasItalic, !.isBold = m.wasBold,
                              !.firstSingleLetterWord = 0,
                              !.firstMultiLetterWord = 0, !.firstSpace = 0,
                              !.rollbacks = @ + 1]
        n == Len(readyTokens)
    IN  IF m.isBold /\ m.isItalic
        THEN IF n > 0
             THEN first([restored EXCEPT
                            !.oldTokens = [readyTokens EXCEPT ![n].pos = @ + 1]])
             ELSE [restored EXCEPT !.pos = tmpTokens[1].pos - 2,
                                   !.ret = restored.oldStyle]
        ELSE first([m EXCEPT !.oldTokens = tmpTokens])

\* the tail of mediawiki.token with a rollback that leaves isBold and
\* isItalic as they are at the end of the line
TokenEndKeepsFlags(m, tmpTokens, readyTokens) ==
    LET first(x) == [x EXCEPT !.pos = x.oldTokens[1].pos,
                              !.ret = x.oldTokens[1].style,
                              !.oldTokens = Tail(x.oldTokens)]
        cleared == [m EXCEPT !.firstSingleLetterWord = 0,
                             !.firstMultiLetterWord = 0, !.firstSpace = 0,
                             !.rollbacks = @ + 1]
        n == Len(readyTokens)
    IN  IF m.isBold /\ m.isItalic
        THEN IF n > 0
             THEN first([cleared EXCEPT
                            !.oldTokens = [readyTokens EXCEPT ![n].pos = @ + 1]])
             ELSE [cleared EXCEPT !.pos = tmpTokens[1].pos - 2,
                                  !.ret = cleared.oldStyle]
        ELSE first([m EXCEPT !.oldTokens = readyTokens \o tmpTokens])

\* the tail of mediawiki.token behind the do-while loop
TokenEnd(m, tmpTokens, readyTokens) ==
    LET first(x) == [x EXCEPT !.pos = x.oldTokens[1].pos,
                              !.ret = x.oldTokens[1].style,
                              !.oldTokens = Tail(x.oldTokens)]
        restored == [m EXCEPT !.isItalic = m.wasItalic, !.isBold = m.wasBold,
                              !.firstSingleLetterWord = 0,
                              !.firstMultiLetterWord = 0, !.firstSpace = 0,
                              !.rollbacks = @ + 1]
        n == Len(readyTokens)
    IN  IF m.isBold /\ m.isItalic
        THEN IF n > 0
             THEN first([restored EXCEPT
                            !.oldTokens = [readyTokens EXCEPT ![n].pos = @ + 1]])
             ELSE [restored EXCEPT !.pos = tmpTokens[1].pos - 2,
                                   !.ret = restored.oldStyle]
        ELSE first([m EXCEPT !.oldTokens = readyTokens \o tmpTokens])

\* the do-while loop of mediawiki.token; fuel bounds the iterations, which
\* the code does not
TokenLoop(m, p, tmpTokens, readyTokens, fuel) ==
    Let(Call(m), LAMBDA m1 :
    LET f == RollbackPoint(m1)
        fresh == f # p
        ready2 == IF fresh THEN readyTokens \o tmpTokens ELSE readyTokens
        snap == IF m1.st.extMode # "false" /\ HasCopyState(m1.st.extMode)
                THEN mediawikiCopyState(m1.heap, m1.st)
                ELSE [heap |-> m1.heap, state |-> copyState(m1.st)]
        tmp2 == Append(IF fresh THEN <<>> ELSE tmpTokens,
                       [pos |-> m1.pos, style |-> m1.ret, state |-> snap.state])
        m2 == [m1 EXCEPT !.heap = snap.heap]
    IN  IF m1.err THEN m1
        ELSE IF f # 0
        THEN IF ~Eol(m2)
             THEN IF fuel = 0 THEN [m2 EXCEPT !.diverged = TRUE]
                  ELSE TokenLoop(m2, f, tmp2, ready2, fuel - 1)
             ELSE TokenEnd(m2, tmp2, ready2)
        ELSE [m1 EXCEPT !.oldStyle = m1.ret])

\* mediawiki.token without the reset at the start of a line
tokenKeepsFlags(m) ==
    IF Len(m.oldTokens) > 0
    THEN [m EXCEPT !.pos = m.oldTokens[1].pos, !.ret = m.oldTokens[1].style,
                   !.oldTokens = Tail(m.oldTokens)]
    ELSE TokenLoop(m, 0, <<>>, <<>>, 2 * Len(m.str) + 8)

\* mediawiki.token( stream, state )
token(m) ==
    IF Len(m.oldTokens) > 0
    THEN [m EXCEPT !.pos = m.oldTokens[1].pos, !.ret = m.oldTokens[1].style,
                   !.oldTokens = Tail(m.oldTokens)]
    ELSE LET m1 == IF Sol(m)
                   THEN [m EXCEPT !.isBold = FALSE, !.isItalic = FALSE,
                                  !.firstSingleLetterWord = 0,
                                  !.firstMultiLetterWord = 0, !.firstSpace = 0]
                   ELSE m
         IN  TokenLoop(m1, 0, <<>>, <<>>, 2 * Len(m.str) + 8)

\* ------------------------------------------------------------------------
\* The heap: objects no State reaches any more are dropped and the rest
\* renumbered (garbage collection, which no program can observe)
\* ------------------------------------------------------------------------
IsState(o) == "tokenize" \in DOMAIN o
ContRefs(k) == IF k.fn = "eatLinkText" THEN {k.cell} ELSE {}
StateRefs(st) ==
    ({st.extState} \ {0}) \cup ContRefs(st.tokenize)
        \cup UNION {ContRefs(st.stack[i]) : i \in 1..Len(st.stack)}
ObjRefs(o) == IF IsState(o) THEN StateRefs(o) ELSE {}
RECURSIVE Reach(_, _)
Reach(h, S) ==
    LET S2 == S \cup UNION {ObjRefs(h[i]) : i \in S}
    IN  IF S2 = S THEN S ELSE Reach(h, S2)
Renumber(live, i) == Cardinality({j \in live : j <= i})
MoveCont(live, k) ==
    IF k.fn = "eatLinkText" THEN [k EXCEPT !.cell = Renumber(live, @)] ELSE k
MoveState(live, st) ==
    [st EXCEPT !.extState = IF @ = 0 THEN 0 ELSE Renumber(live, @),
               !.tokenize = MoveCont(live, @),
               !.stack = [i \in 1..Len(st.stack) |-> MoveCont(live, st.stack[i])]]
MoveObj(live, o) == IF IsState(o) THEN MoveState(live, o) ELSE o
\* roots: a sequence of State values; the result is the compacted heap and
\* the roots with their references renumbered
Compact(h, roots) ==
    LET live == Reach(h, UNION {StateRefs(roots[i]) : i \in 1..Len(roots)})
        old(n) == CHOOSE i \in live : Renumber(live, i) = n
    IN  [heap |-> [n \in 1..Cardinality(live) |-> MoveObj(live, h[old(n)])],
         roots |-> [i \in 1..Len(roots) |-> MoveState(live, roots[i])]]

\* ------------------------------------------------------------------------
\* Input lines: concatenations of pieces of markup
\* ------------------------------------------------------------------------
RECURSIVE Concats(_, _)
Concats(P, n) ==
    IF n = 0 THEN {<<>>}
    ELSE LET prev == Concats(P, n - 1)
         IN  prev \cup {w \o x : w \in prev, x \in P}

WikiPieces ==
    {<<"a">>, <<" ">>, <<"'">>, <<"'", "'">>, <<"'", "'", "'">>,
     <<"{", "{">>, <<"}", "}">>, <<"|">>, <<"[", "[">>, <<"]", "]">>,
     <<"[", "[", "a", "|">>, <<"[">>, <<"]">>, <<"h", "t", "t", "p", ":", "/", "/">>,
     <<"[", "h", "t", "t", "p", ":", "/", "/">>,
     <<"<", "p", "r", "e", ">">>, <<"<", "/", "p", "r", "e", ">">>,
     <<"<", "r", "e", "f", ">">>, <<"<", "/", "r", "e", "f", ">">>,
     <<"<", "b", ">">>, <<"<", "/", "b">>, <<"<", "b", "r">>,
     <<"<", "!", "-", "-">>, <<"-", "-", ">">>, <<"=">>, <<"{", "{", "{">>,
     <<"}", "}", "}">>, <<"{", "|">>, <<"|", "}">>, <<"&">>, <<";">>,
     <<"~", "~", "~">>, <<"_", "_">>, <<"#">>, <<":">>, <<"<", "x">>, <<">">>,
     <<"/">>, <<"!">>, <<"-">>, <<"l", "c">>, <<".">>, <<"*">>}
\* the first line of a document, and the lines that follow it
WikiLines == Concats(WikiPieces, MaxPieces)
WikiTailLines == Concats(WikiPieces, MaxTailPieces)

CopyPieces ==
    {<<"a">>, <<"'", "'", "'">>, <<"[", "[", "a", "|">>, <<"]", "]">>,
     <<"<", "p", "r", "e", ">">>, <<"<", "r", "e", "f", ">">>, <<"{", "{">>}
CopyLines == Concats(CopyPieces, MaxPieces)

\* the lines the host may hand over as line number n + 1
\* templates `{{name|arg}}` with a plain name and a plain argument, left
\* open behind the argument or behind the name, and the lines after them
NameTexts ==
    {w \in Concats({<<"a">>, <<"o">>, <<" ">>}, MaxName) :
        \E i \in DOMAIN w : w[i] # " "}
ArgTexts ==
    {w \in Concats({<<"b">>, <<" ">>}, MaxArg) : \E i \in DOMAIN w : w[i] # " "}
OpenArgument == {<<"{", "{">> \o n \o <<"|">> \o a : n \in NameTexts, a \in ArgTexts}
OpenName == {<<"{", "{">> \o n : n \in NameTexts}
Templates == {l \o <<"}", "}">> : l \in OpenArgument}
PlainTail == {<<>>, <<"x">>}
TemplateTail == PlainTail \cup {<<"}", "}">>}

\* text with runs of apostrophes, also as the text of a link
QuotePieces ==
    {<<"a">>, <<" ">>, <<"'">>, <<"'", "'">>, <<"'", "'", "'">>,
     <<"'", "'", "'", "'", "'">>, <<"[", "[", "a", "|">>}
QuoteLines == Concats(QuotePieces, MaxQuotePieces)
\* five apostrophes, plain text, five apostrophes
Quote5 == <<"'", "'", "'", "'", "'">>
PlainTexts ==
    {t \in Concats({<<"a">>, <<" ">>, <<"'">>}, MaxText) :
        /\ t # <<>>
        /\ t[1] # "'" /\ t[Len(t)] # "'"
        /\ \A i \in 1..(Len(t) - 1) : t[i] # "'" \/ t[i + 1] # "'"}
FiveAndFive == {Quote5 \o t \o Quote5 : t \in PlainTexts}
QuoteTail == {<<>>, <<"'", "a">>}
\* two candidates, the second of higher priority, and what sets both flags
\* behind them: the tokens in front of the second candidate are replayed
Quote3 == <<"'", "'", "'">>
TwoCandidates ==
    {<<" ">> \o Quote3 \o <<"a">> \o Quote3 \o t :
        t \in {Quote5, <<"a">> \o Quote5, <<"'", "'", "a">> \o Quote3,
               <<"[", "[", "a", "|">> \o Quote5, <<"a">>}}

\* documents for the fold resolver: templates with their arguments, nested,
\* side by side and left open, and extension tags with their content
Tpl(args) == <<"{", "{", "a">> \o args \o <<"}", "}">>
FoldNested == {Tpl(<<>>), Tpl(<<"|", "b">>)}
FoldArgs ==
    {<<>>, <<"b">>} \cup FoldNested \cup {n \o <<"b">> : n \in FoldNested}
        \cup {n \o Tpl(<<"|", "b">>) : n \in FoldNested}
FoldTemplates ==
    {Tpl(<<>>)} \cup {Tpl(<<"|">> \o x) : x \in FoldArgs}
        \cup {Tpl(<<"|">> \o x \o <<"|", "b">>) : x \in FoldArgs \ {<<>>}}
FoldOpen == {<<"{", "{", "a", "|">> \o x : x \in FoldArgs}
FoldTags ==
    {<<"<", "p", "r", "e", ">", "b", "<", "/", "p", "r", "e", ">">>,
     <<"<", "p", "r", "e", ">", "<", "/", "p", "r", "e", ">">>,
     <<"<", "p", "r", "e", ">", "b">>,
     <<"<", "r", "e", "f", ">", "b", "<", "/", "r", "e", "f", ">">>,
     <<"<", "x", ">", "b", "<", "/", "x", ">">>}
FoldItems == FoldTemplates \cup FoldOpen \cup FoldTags \cup {<<"x">>}
FoldLines ==
    FoldItems \cup {Tpl(<<"|", "b">>) \o i : i \in FoldItems}
        \cup {Tpl(<<"|">> \o t) : t \in FoldTags}
FoldTail == {<<>>, <<"x">>, <<"}", "}">>}
\* documents of headings of level 1 to 3 and of other lines
Heading(n) ==
    [i \in 1..n |-> "="] \o <<"a">> \o [i \in 1..n |-> "="]
HeadingLines == {Heading(1), Heading(2), Heading(3), <<"x">>, <<>>}

\* HTML tags, opened, closed, self-closed and left open, of the names b, i
\* and B and of the void tag br
HtmlPieces ==
    {<<"<", "b", ">">>, <<"<", "i", ">">>, <<"<", "B", ">">>,
     <<"<", "/", "b", ">">>, <<"<", "/", "i", ">">>, <<"<", "/", "B", ">">>,
     <<"<", "b", "r", ">">>, <<"<", "/", "b", "r", ">">>,
     <<"<", "b", "/", ">">>, <<"<", "b">>, <<">">>, <<"a">>}
HtmlLines == Concats(HtmlPieces, MaxHtmlPieces)
HtmlTail ==
    {<<>>, <<">">>, <<"<", "/", "b", ">">>, <<"<", "/", "i", ">">>,
     <<"<", "b", ">">>}

\* extension tags with a mode of their own (pre), with the mode of wikitext
\* (ref) and with none (x), and what may stand between them
ExtPieces ==
    {<<"<", "r", "e", "f", ">">>, <<"<", "/", "r", "e", "f", ">">>,
     <<"<", "p", "r", "e", ">">>, <<"<", "/", "p", "r", "e", ">">>,
     <<"<", "x", ">">>, <<"<", "/", "x", ">">>,
     <<"a">>, <<"<", "/", "b">>, <<"'", "'", "'">>, <<"&">>}
ExtLines == Concats(ExtPieces, MaxExtPieces)
ExtTail ==
    {<<>>, <<"<", "/", "r", "e", "f", ">">>, <<"a", "<", "/", "p", "r", "e", ">">>}

\* runs of tildes in plain text
TildeLines == Concats({<<"~">>, <<"a">>}, MaxTildePieces)

\* templates opened one in the name of the other and left open, and the
\* line that follows them
Nested(n) == [i \in 1..(3 * n) |-> <<"{", "{", "a">>[((i - 1) % 3) + 1]]
NestLines == {Nested(n) : n \in 0..MaxNest}
NestTail == {<<"x">>, <<>>}

\* headings of level 1 with text, an entity, a comment and constructs left
\* open between the `=`, and the line that follows the heading
SectionPieces ==
    {<<"a">>, <<"&">>, <<"{", "{">>, <<"[", "[">>, <<"<", "b">>,
     <<"<", "!", "-", "-">>, <<"-", "-", ">">>, <<"[">>}
SectionLines ==
    {<<"=">> \o w \o <<"=">> :
        w \in Concats(SectionPieces, MaxSectionPieces) \ {<<>>}}
SectionTail == {<<"x">>, <<>>}

\* comments in text, in a template, in the text of a link, in an HTML tag
\* and in bold text, closed on their line or on the next or left open
CommentOpen == <<"<", "!", "-", "-">>
CommentClose == <<"-", "-", ">">>
CommentLines ==
    {p \o CommentOpen \o c \o e :
        p \in {<<>>, <<"a">>, <<"{", "{", "a", "|">>, <<"[", "[", "a", "|">>,
               <<"<", "b", ">">>, <<"'", "'", "'">>, <<"{", "{">>},
        c \in {<<>>, <<"a">>, <<"{", "{">>, <<"'", "'">>, <<"-", "-">>},
        e \in {<<>>, CommentClose, CommentClose \o <<"a">>,
               CommentClose \o <<"}", "}">>}}
CommentTail ==
    {<<>>, <<"a">>, CommentClose, <<"a">> \o CommentClose \o <<"b">>,
     <<"}", "}">> \o CommentClose \o <<"}", "}">>}

\* double braces in text and in a link, then names in and out of the
\* registry of functions in both cases of letters, then what follows a name
FunctionLines ==
    {p \o <<"{", "{">> \o w \o n \o f :
        p \in {<<>>, <<"[", "[", "a", "|">>},
        w \in {<<>>, <<" ">>},
        n \in {<<>>, <<"l", "c">>, <<"b">>, <<"B">>, <<"B", "a">>,
               <<"b", "a">>, <<"a">>, <<"!">>, <<"#">>, <<"#", "l", "c">>},
        f \in {<<>>, <<":">>, <<"}", "}">>, <<"}">>, <<" ">>, <<"|">>,
               <<" ", "}", "}">>, <<" ", "}">>, <<"}", "a">>, <<":", "a">>,
               <<" ", ":">>, <<"}", "}", "}">>}}
FunctionTail == {<<>>, <<"}", "}">>}

\* a table: its first line, then a row of cells with bold and italic text
TablePieces ==
    {Quote3 \o <<"a">>, <<"'", "'">>, <<"|", "|">>, <<"a">>}
TableRows ==
    {<<>>} \cup {<<"|">> \o w : w \in Concats(TablePieces, MaxTablePieces)}
TableTail == {<<>>, <<"|", "}">>}

Lines(fam, n) ==
    CASE fam = "wiki" -> IF n = 0 THEN WikiLines ELSE WikiTailLines
      [] fam = "nest" -> IF n = 0 THEN NestLines ELSE NestTail
      [] fam = "section" -> IF n = 0 THEN SectionLines ELSE SectionTail
      [] fam = "comment" -> IF n = 0 THEN CommentLines ELSE CommentTail
      [] fam = "function" -> IF n = 0 THEN FunctionLines ELSE FunctionTail
      [] fam = "table" ->
            IF n = 0 THEN {<<"{", "|">>}
            ELSE IF n = 1 THEN TableRows ELSE TableTail
      [] fam = "copy" -> CopyLines
      [] fam = "template" ->
            IF n = 0 THEN Templates \cup OpenArgument \cup OpenName
            ELSE TemplateTail
      [] fam = "quote" ->
            IF n = 0 THEN QuoteLines \cup FiveAndFive \cup TwoCandidates
            ELSE QuoteTail
      [] fam = "fold" -> IF n = 0 THEN FoldLines ELSE FoldTail
      [] fam = "heading" -> HeadingLines
      [] fam = "html" -> IF n = 0 THEN HtmlLines ELSE HtmlTail
      [] fam = "ext" -> IF n = 0 THEN ExtLines ELSE ExtTail
      [] fam = "tilde" -> TildeLines
      [] OTHER -> {}

\* the families whose documents are kept for the fold resolver
DocFamilies == {"template", "fold", "heading"}

\* ------------------------------------------------------------------------
\* The host (StreamLanguage): one stream per line, token calls until the
\* end of the line, blankLine for an empty line, copyState at line ends
\* ------------------------------------------------------------------------
VARIABLES
    family,     \* the family of input lines this behaviour draws from
    lineNo,     \* the number of lines handed to the tokenizer so far
    line,       \* the text of the current line
    stream,     \* the StringStream: [str, pos, start]
    state,      \* the State object the host threads through the calls
    mode,       \* the fields of the CodeMirrorModeMediaWiki instance
    heap,       \* the objects reached by reference
    before,     \* stream.pos when the latest token call began
    style,      \* the style the latest token call returned
    fault,      \* "none", or the exception that ended tokenization
    stalls,     \* the calls since stream.start that left pos <= start
    rollbacks,  \* the number of unwinds performed on the current line
    toks,       \* the calls made on the current line
    doc,        \* the completed lines and their calls (DocFamilies only)
    phase,      \* "plain", or "first"/"second": which of s and c is fed
    snap,       \* the other one of the pair (s, c) once copyState was called
    fed,        \* the lines handed over since copyState
    fedAt,      \* the number of lines of fed the second run has been given
    trace,      \* the (line, end, style) of the calls of the current run
    calls,      \* the calls of continuations made on the current line
    trace1,     \* the trace of the first run
    view        \* the EditorView: the selection and what a fold command did

vars == <<family, lineNo, line, stream, state, mode, heap, before, style,
          fault, stalls, rollbacks, toks, doc, phase, snap, fed, fedAt,
          trace, calls, trace1, view>>

\* the number of calls readToken makes before it gives up
MaxStalls == 10

\* a fold range that is absent, and the view before any command
NoRange == [from |-> -1, to |-> -1]
NewView ==
    [command |-> "none", selection |-> [from |-> 0, to |-> 0],
     effects |-> <<>>, cursor |-> 0, tooltip |-> NoRange, walked |-> {},
     clicked |-> 0, error |-> "none"]

\* the machine a token call works on
Machine ==
    [str |-> stream.str, pos |-> stream.pos, st |-> state, heap |-> heap,
     ret |-> <<>>, fall |-> FALSE, err |-> FALSE, diverged |-> FALSE,
     calls |-> calls,
     rollbacks |-> rollbacks,
     isBold |-> mode.isBold, wasBold |-> mode.wasBold,
     isItalic |-> mode.isItalic, wasItalic |-> mode.wasItalic,
     firstSingleLetterWord |-> mode.firstSingleLetterWord,
     firstMultiLetterWord |-> mode.firstMultiLetterWord,
     firstSpace |-> mode.firstSpace, oldStyle |-> mode.oldStyle,
     oldTokens |-> mode.oldTokens]

ModeOf(r) == [f \in DOMAIN NewMode |-> r[f]]

InitVars(fam) ==
    /\ family = fam
    /\ lineNo = 0
    /\ line = <<>>
    /\ stream = [str |-> <<>>, pos |-> 0, start |-> 0]
    /\ state = startState
    /\ mode = NewMode
    /\ heap = <<>>
    /\ before = 0
    /\ style = <<>>
    /\ fault = "none"
    /\ stalls = 0
    /\ rollbacks = 0
    /\ toks = <<>>
    /\ doc = <<>>
    /\ phase = "plain"
    /\ snap = startState
    /\ fed = <<>>
    /\ fedAt = 0
    /\ trace = <<>>
    /\ calls = <<>>
    /\ trace1 = <<>>
    /\ view = NewView

Init == InitVars("wiki")

AtLineEnd == fault = "none" /\ stream.pos >= Len(stream.str)

\* the number of lines of a document
LineBound == IF family = "heading" THEN MaxHeadingLines ELSE MaxLines

\* the lines the host may hand over next
NextLines ==
    IF phase = "second"
    THEN IF fedAt < Len(fed) THEN {fed[fedAt + 1]} ELSE {}
    ELSE IF lineNo < LineBound /\ (phase = "first" => Len(fed) < MaxFed)
    THEN Lines(family, lineNo)
    ELSE {}

\* what a new line does to the bookkeeping of the host
StartLine(l) ==
    /\ line' = l
    /\ stream' = [str |-> l, pos |-> 0, start |-> 0]
    /\ before' = 0
    /\ stalls' = 0
    /\ rollbacks' = 0
    /\ toks' = <<>>
    /\ calls' = <<>>
    /\ doc' = IF family \in DocFamilies /\ lineNo > 0
              THEN Append(doc, [text |-> line, toks |-> toks])
              ELSE doc
    /\ IF phase = "second"
       THEN /\ fedAt' = fedAt + 1
            /\ UNCHANGED <<lineNo, fed>>
       ELSE /\ lineNo' = lineNo + 1
            /\ fed' = IF phase = "first" THEN Append(fed, l) ELSE fed
            /\ UNCHANGED fedAt
    /\ UNCHANGED <<family, state, mode, heap, style, fault, phase, snap,
                   trace, trace1, view>>

\* the host starts the next, non-empty line on a new stream
NewLine ==
    /\ AtLineEnd
    /\ \E l \in NextLines \ {<<>>} : StartLine(l)

\* mediawiki.blankLine( state ): the host met an empty line; no mode of
\* the configuration defines blankLine, so no state changes
BlankLine ==
    /\ AtLineEnd
    /\ <<>> \in NextLines
    /\ StartLine(<<>>)

\* what the host keeps of a call that returned r, c being the heap and the
\* State objects behind the garbage collection
Stored(r, c, advanced) ==
    /\ stream' = [str |-> r.str, pos |-> r.pos,
                  start |-> IF advanced THEN r.pos ELSE stream.start]
    /\ state' = c.roots[1]
    /\ snap' = c.roots[2]
    /\ mode' = [ModeOf(r) EXCEPT
                   !.oldTokens = [i \in 1..Len(r.oldTokens) |->
                                     [r.oldTokens[i] EXCEPT
                                         !.state = c.roots[i + 2]]]]
    /\ heap' = c.heap
    /\ before' = stream.pos
    /\ style' = r.ret
    /\ stalls' = IF advanced THEN 0 ELSE stalls + 1
    /\ fault' = IF r.err THEN "TypeError"
                ELSE IF r.diverged THEN "diverged"
                ELSE IF ~advanced /\ stalls + 1 >= MaxStalls THEN "stuck"
                ELSE "none"
    /\ rollbacks' = r.rollbacks
    /\ calls' = r.calls
    /\ toks' = Append(toks, [from |-> stream.pos, to |-> r.pos,
                             start |-> stream.start, style |-> r.ret])
    /\ trace' = IF phase = "plain" THEN trace
                ELSE Append(trace, <<IF phase = "first" THEN Len(fed)
                                     ELSE fedAt, r.pos, r.ret>>)

Returned(r) ==
    Stored(r,
           Compact(r.heap,
                   <<r.st, snap>>
                       \o [i \in 1..Len(r.oldTokens) |-> r.oldTokens[i].state]),
           r.pos > stream.start)

\* readToken: one call mediawiki.token( stream, state ) by the host
Token ==
    /\ fault = "none"
    /\ stream.pos < Len(stream.str)
    /\ Returned(token(Machine))
    /\ UNCHANGED <<family, lineNo, line, doc, phase, fed, fedAt, trace1,
                   view>>

\* the host takes c = mediawiki.copyState( s ) at the end of a line and goes
\* on with one of the two
CopyState ==
    /\ AtLineEnd
    /\ phase = "plain"
    /\ lineNo < MaxLines
    /\ LET r == mediawikiCopyState(heap, state)
       IN  /\ heap' = r.heap
           /\ \E first \in {"s", "c"} :
                 /\ state' = IF first = "s" THEN state ELSE r.state
                 /\ snap' = IF first = "s" THEN r.state ELSE state
    /\ phase' = "first"
    /\ UNCHANGED <<family, lineNo, line, stream, mode, before, style, fault,
                   stalls, rollbacks, toks, doc, fed, fedAt, trace, calls,
                   trace1, view>>

\* the host hands the lines it gave to the one to the other
Resume ==
    /\ AtLineEnd
    /\ phase = "first"
    /\ fed # <<>>
    /\ phase' = "second"
    /\ state' = snap
    /\ snap' = state
    /\ trace1' = trace
    /\ trace' = <<>>
    /\ UNCHANGED <<family, lineNo, line, stream, mode, heap, before, style,
                   fault, stalls, rollbacks, toks, doc, fed, fedAt, calls,
                   view>>

Next == NewLine \/ BlankLine \/ Token

Spec == Init /\ [][Next]_vars

NextCopy == Next \/ CopyState \/ Resume

SpecCopy == InitVars("copy") /\ [][NextCopy]_vars

SpecTemplate == InitVars("template") /\ [][Next]_vars

SpecQuote == InitVars("quote") /\ [][Next]_vars

SpecHtml == InitVars("html") /\ [][Next]_vars

SpecExt == InitVars("ext") /\ [][Next]_vars

SpecTilde == InitVars("tilde") /\ [][Next]_vars
SpecTable == InitVars("table") /\ [][Next]_vars
SpecSection == InitVars("section") /\ [][Next]_vars
SpecComment == InitVars("comment") /\ [][Next]_vars
SpecFunction == InitVars("function") /\ [][Next]_vars
\* the host can make one more token call: what ENABLED Token amounts to
TokenEnabled == fault = "none" /\ stream.pos < Len(stream.str)
SpecNest == InitVars("nest") /\ [][Next]_vars

\* the counters of a State, the styles and the counters to end that
\* makeLocalStyle is called with
Depths == 0..MaxDepth
ComposeStyles == {<<>>, <<tags.templateBracket>>, <<tags.linkBracket>>}
EndGrounds == {"", "nTemplate", "nLink", "nExt"}

InitStyle ==
    /\ family = "style"
    /\ lineNo = 0
    /\ line = <<>>
    /\ stream = [str |-> <<>>, pos |-> 0, start |-> 0]
    /\ \E t \in Depths, e \in Depths, l \in Depths :
          state = [startState EXCEPT !.nTemplate = t, !.nExt = e, !.nLink = l]
    /\ mode = NewMode
    /\ heap = <<>>
    /\ before = 0
    /\ style = <<>>
    /\ fault = "none"
    /\ stalls = 0
    /\ rollbacks = 0
    /\ toks = <<>>
    /\ doc = <<>>
    /\ phase = "plain"
    /\ snap = startState
    /\ fed = <<>>
    /\ fedAt = 0
    /\ trace = <<>>
    /\ calls = <<>>
    /\ trace1 = <<>>
    /\ view = NewView

\* makeLocalStyle( s, state, e ), called as the continuations call it: with
\* a counter to end only while that counter is positive
Compose ==
    /\ family = "style"
    /\ \E s \in ComposeStyles, e \in EndGrounds :
          /\ e # "" => state[e] > 0
          /\ LET r == makeLocalStyle(Machine, s, e)
             IN  /\ state' = r.st
                 /\ style' = r.ret
                 /\ calls' = <<[fn |-> "makeLocalStyle", style |-> s,
                                endGround |-> e]>>
    /\ UNCHANGED <<family, lineNo, line, stream, mode, heap, before, fault,
                   stalls, rollbacks, toks, doc, phase, snap, fed, fedAt,
                   trace, trace1, view>>

SpecStyle == InitStyle /\ [][Compose]_vars

\* ------------------------------------------------------------------------
\* The syntax tree of the host and the fold resolver (fold.ts)
\* ------------------------------------------------------------------------
\* modeConfig.tokens, the table of the styles the tokenizer emits
tokens == tags

\* the lines of the document, the one being tokenized included
DocLines ==
    IF lineNo = 0 THEN <<>> ELSE Append(doc, [text |-> line, toks |-> toks])
\* the offset of line k in the document
RECURSIVE LineFrom(_, _)
LineFrom(ls, k) ==
    IF k = 1 THEN 0 ELSE LineFrom(ls, k - 1) + Len(ls[k - 1].text) + 1
\* state.doc: the lines joined by line breaks
RECURSIVE DocText(_)
DocText(ls) ==
    IF ls = <<>> THEN <<>>
    ELSE IF Len(ls) = 1 THEN ls[1].text
    ELSE DocText(SubSeq(ls, 1, Len(ls) - 1)) \o <<"\n">> \o ls[Len(ls)].text

\* the tokens readToken hands over for one line: a call that left the
\* cursor behind stream.start and returned a style
Leaves(l, off) ==
    LET ts == SelectSeq(l.toks, LAMBDA t : t.to > t.start /\ t.style # <<>>)
    IN  [i \in 1..Len(ts) |-> [from |-> off + ts[i].start, to |-> off + ts[i].to,
                               name |-> ts[i].style]]
RECURSIVE AllLeaves(_, _)
AllLeaves(ls, k) ==
    IF k = 0 THEN <<>>
    ELSE AllLeaves(ls, k - 1) \o Leaves(ls[k], LineFrom(ls, k))
\* emitToken: a token that starts where the one before it ends and has its
\* style extends that one
RECURSIVE Merge(_, _)
Merge(acc, rest) ==
    IF rest = <<>> THEN acc
    ELSE IF /\ acc # <<>>
            /\ acc[Len(acc)].name = Head(rest).name
            /\ acc[Len(acc)].to = Head(rest).from
    THEN Merge([acc EXCEPT ![Len(acc)].to = Head(rest).to], Tail(rest))
    ELSE Merge(Append(acc, Head(rest)), Tail(rest))
\* the children of the top node of the syntax tree
Tree(ls) == Merge(<<>>, AllLeaves(ls, Len(ls)))

\* tree.resolve( pos, side ): the index of the child entered, 0 for the top
\* node
resolve(tree, pos, side) ==
    LET in == {i \in DOMAIN tree :
                  IF side < 0 THEN tree[i].from < pos /\ tree[i].to >= pos
                  ELSE tree[i].from <= pos /\ tree[i].to > pos}
    IN  IF in = {} THEN 0 ELSE CHOOSE i \in in : TRUE

\* name.includes( tag ): no tag of the table holds another one that fold.ts
\* asks for
Includes(name, tag) == \E i \in DOMAIN name : name[i] = tag
\* includes( state, node, text ) for a text of one character
includes(text, node, c) == \E p \in (node.from + 1)..node.to : text[p] = c
isComponent(keys, node) == \E key \in keys : Includes(node.name, tokens[key])
isTemplateBracket(node) ==
    isComponent({"templateBracket", "parserFunctionBracket"}, node)
isDelimiter(node) ==
    isComponent({"templateDelimiter", "parserFunctionDelimiter"}, node)
\* the styles /-(?:template|ext)[a-z\d-]+ground/ matches
TemplateGrounds ==
    {"mw" \o g1 \o g2 \o g3 \o "-ground" :
        g1 \in {"", "-template", "-template2", "-template3"},
        g2 \in {"", "-ext", "-ext2", "-ext3"}, g3 \in {"", "-link"}}
        \ {"mw-ground", "mw-link-ground"}
isTemplate(node) ==
    /\ \E i \in DOMAIN node.name : node.name[i] \in TemplateGrounds
    /\ ~isTemplateBracket(node)
isExtBracket(node) == isComponent({"extTagBracket"}, node)
\* node.name.includes( 'mw-tag-' )
isExt(node) == \E i \in DOMAIN node.name : node.name[i] \in {tags.pre, tags.nowiki}
stackUpdate(text, node) == IF includes(text, node, "{") THEN 1 ELSE -1

\* the sum of stackUpdate over the template brackets among tree[a..b]
Balance(tree, text, a, b) ==
    Cardinality({l \in a..b : isTemplateBracket(tree[l])
                              /\ stackUpdate(text, tree[l]) = 1})
        - Cardinality({l \in a..b : isTemplateBracket(tree[l])
                                    /\ stackUpdate(text, tree[l]) = -1})
\* matchTag( state, pos ).end.to for the closing tag that begins with
\* tree[j]: the end of the opening tag before it
matchTagEndTo(tree, text, j) ==
    LET open == {l \in 1..(j - 1) : /\ isExtBracket(tree[l])
                                    /\ text[tree[l].to] = ">"}
    IN  IF open = {} THEN -1
        ELSE tree[CHOOSE l \in open : \A o \in open : o <= l].to

\* the smallest and the greatest member of a set of indices, 0 when empty
First(S) == IF S = {} THEN 0 ELSE CHOOSE i \in S : \A j \in S : i <= j
Last(S) == IF S = {} THEN 0 ELSE CHOOSE i \in S : \A j \in S : j <= i

\* foldable( state, node, tree ) without the comparison of from and to
foldableNodeUnchecked(tree, text, i) ==
    LET n == Len(tree)
        closeTag == First({j \in (i + 1)..n : /\ isExtBracket(tree[j])
                                              /\ includes(text, tree[j], "<")
                                              /\ includes(text, tree[j], "/")})
        fwd(j) == 1 + Balance(tree, text, i + 1, j)
        next == First({j \in (i + 1)..n : isTemplateBracket(tree[j]) /\ fwd(j) = 0})
        ahead == First({l \in (i + 1)..(IF next = 0 THEN n ELSE next - 1) :
                           /\ ~isTemplateBracket(tree[l])
                           /\ isDelimiter(tree[l])
                           /\ fwd(l) = 1})
        d1 == IF isDelimiter(tree[i]) THEN i ELSE ahead
        bwd(l) == Balance(tree, text, l, i - 1) - 1
        prev == Last({l \in 1..(i - 1) : isTemplateBracket(tree[l]) /\ bwd(l) = 0})
        behind == First({l \in (prev + 1)..(i - 1) :
                            /\ ~isTemplateBracket(tree[l])
                            /\ isDelimiter(tree[l])
                            /\ bwd(l) = -1})
        delimiter == IF behind # 0 THEN behind ELSE d1
    IN  IF ~isTemplate(tree[i])
        THEN IF isExt(tree[i]) /\ closeTag # 0
             THEN [from |-> matchTagEndTo(tree, text, closeTag),
                   to |-> tree[closeTag].from]
             ELSE NoRange
        ELSE IF next = 0 THEN NoRange
        ELSE IF delimiter # 0 /\ tree[delimiter].to # 0
        THEN [from |-> tree[delimiter].to, to |-> tree[next].from]
        ELSE NoRange

\* foldable( state, node, tree ) for the child i of the top node
foldableNode(tree, text, i) ==
    LET n == Len(tree)
        \* the extension tag: the bracket `</` among the next siblings
        closeTag == First({j \in (i + 1)..n : /\ isExtBracket(tree[j])
                                              /\ includes(text, tree[j], "<")
                                              /\ includes(text, tree[j], "/")})
        \* the first walk: the sibling at which stack reaches 0
        fwd(j) == 1 + Balance(tree, text, i + 1, j)
        next == First({j \in (i + 1)..n : isTemplateBracket(tree[j]) /\ fwd(j) = 0})
        ahead == First({l \in (i + 1)..(IF next = 0 THEN n ELSE next - 1) :
                           /\ ~isTemplateBracket(tree[l])
                           /\ isDelimiter(tree[l])
                           /\ fwd(l) = 1})
        d1 == IF isDelimiter(tree[i]) THEN i ELSE ahead
        \* the second walk
        bwd(l) == Balance(tree, text, l, i - 1) - 1
        prev == Last({l \in 1..(i - 1) : isTemplateBracket(tree[l]) /\ bwd(l) = 0})
        behind == First({l \in (prev + 1)..(i - 1) :
                            /\ ~isTemplateBracket(tree[l])
                            /\ isDelimiter(tree[l])
                            /\ bwd(l) = -1})
        delimiter == IF behind # 0 THEN behind ELSE d1
    IN  IF ~isTemplate(tree[i])
        THEN IF isExt(tree[i]) /\ closeTag # 0
             THEN [from |-> matchTagEndTo(tree, text, closeTag),
                   to |-> tree[closeTag].from]
             ELSE NoRange
        ELSE IF next = 0 THEN NoRange
        ELSE IF delimiter # 0 /\ tree[delimiter].to # 0
                /\ tree[delimiter].to < tree[next].from
        THEN [from |-> tree[delimiter].to, to |-> tree[next].from]
        ELSE NoRange

\* foldable( state, pos )
foldable(tree, text, pos) ==
    LET left == resolve(tree, pos, -1)
        i == IF left # 0 /\ (isTemplate(tree[left]) \/ isExt(tree[left]))
             THEN left ELSE resolve(tree, pos, 1)
    IN  IF i = 0 THEN NoRange ELSE foldableNode(tree, text, i)

\* foldable at every position of the document
Folds ==
    LET text == DocText(DocLines)
        tree == Tree(DocLines)
    IN  [pos \in 0..Len(text) |-> foldable(tree, text, pos)]

\* the sibling at which the first walk of foldable stops with stack 0, 0
\* when it runs out of siblings
closingBracket(tree, text, i) ==
    First({j \in (i + 1)..Len(tree) :
              /\ isTemplateBracket(tree[j])
              /\ 1 + Balance(tree, text, i + 1, j) = 0})
\* foldable( state, node, tree ) finds the closing bracket missing
unclosed(tree, text, i) ==
    isTemplate(tree[i]) /\ closingBracket(tree, text, i) = 0
\* the siblings the walks of foldable( state, node, tree ) look at
siblings(tree, text, i) ==
    LET n == Len(tree)
        closeTag == First({j \in (i + 1)..n : /\ isExtBracket(tree[j])
                                              /\ includes(text, tree[j], "<")
                                              /\ includes(text, tree[j], "/")})
        next == closingBracket(tree, text, i)
        prev == Last({l \in 1..(i - 1) :
                         /\ isTemplateBracket(tree[l])
                         /\ Balance(tree, text, l, i - 1) - 1 = 0})
    IN  IF ~isTemplate(tree[i])
        THEN IF isExt(tree[i])
             THEN (i + 1)..(IF closeTag = 0 THEN n ELSE closeTag)
             ELSE {}
        ELSE IF next = 0 THEN (i + 1)..n
        ELSE (i + 1)..next \cup (IF prev = 0 THEN 1 ELSE prev)..(i - 1)

\* update as the greater of the two whatever the command
updateRightmost(all, pos, range) == IF pos >= range.to THEN pos ELSE range.to

\* the two ways of update: the default of traverse, and the one the fold of
\* the whole document passes
update(all, pos, range) ==
    IF all
    THEN IF range.from <= pos /\ range.to > pos THEN range.to ELSE pos
    ELSE IF pos >= range.to THEN pos ELSE range.to

\* traverse( state, tree, effects, node, end, anchor, update ): acc holds
\* effects and anchor, and the siblings looked at by the calls of foldable
\* that found no closing bracket
RECURSIVE traverse(_, _, _, _, _, _)
traverse(tree, text, acc, node, end, all) ==
    IF node = 0 \/ node > Len(tree) THEN acc
    ELSE IF tree[node].from > end THEN acc
    ELSE LET range == foldableNode(tree, text, node)
             seen == IF unclosed(tree, text, node)
                     THEN [acc EXCEPT
                              !.walked = @ \cup siblings(tree, text, node)]
                     ELSE acc
         IN  IF range # NoRange
             THEN traverse(tree, text,
                           [seen EXCEPT !.effects = Append(@, range),
                                        !.anchor = update(all, @, range)],
                           resolve(tree, range.to, 1), end, all)
             ELSE traverse(tree, text, seen, node + 1, end, all)

\* getAnchor( state ) for a selection of one range
getAnchor(selection) == selection.to

\* the document is parsed to its end: ensureSyntaxTree and syntaxTree give
\* the whole tree
Parsed == AtLineEnd /\ lineNo > 0 /\ NextLines = {}
\* the end of the document, and a number beyond every position
DocLength == Len(DocText(DocLines))
Infinity == DocLength + 1
\* the selections of one range: a cursor, or a range up to the end of the
\* document
Selections ==
    {[from |-> f, to |-> f] : f \in 0..DocLength}
        \cup {[from |-> f, to |-> DocLength] : f \in 0..DocLength}
Cursors == {sel \in Selections : sel.from = sel.to}

Idle ==
    /\ Parsed
    /\ view.command = "none"
    /\ UNCHANGED <<family, lineNo, line, stream, state, mode, heap, before,
                   style, fault, stalls, rollbacks, toks, doc, phase, snap,
                   fed, fedAt, trace, calls, trace1>>

\* execute( view, effects, anchor ) for the command c on the selection sel
execute(c, sel, r) ==
    view' = [view EXCEPT !.command = c, !.selection = sel,
                         !.walked = r.walked,
                         !.effects = r.effects,
                         !.cursor = IF r.effects # <<>> THEN r.anchor ELSE @]

\* the StateField of the tooltip: create( state ) when the selection is set
\* to a cursor at head
Select ==
    /\ Idle
    /\ \E head \in 0..DocLength :
          view' = [view EXCEPT
                      !.command = "select",
                      !.selection = [from |-> head, to |-> head],
                      !.tooltip = foldable(Tree(DocLines), DocText(DocLines),
                                           head)]

\* foldHandler: a click on the tooltip
FoldHandler ==
    /\ AtLineEnd
    /\ view.command = "select"
    /\ view.tooltip # NoRange
    /\ view' = [view EXCEPT !.command = "foldHandler",
                            !.effects = <<view.tooltip>>,
                            !.cursor = view.tooltip.to]
    /\ UNCHANGED <<family, lineNo, line, stream, state, mode, heap, before,
                   style, fault, stalls, rollbacks, toks, doc, phase, snap,
                   fed, fedAt, trace, calls, trace1>>

\* Ctrl-Shift-[: fold the templates at the selection
FoldSelection ==
    /\ Idle
    /\ \E sel \in Selections :
          /\ LET tree == Tree(DocLines)
                 left == IF sel.from = sel.to THEN resolve(tree, sel.from, -1)
                         ELSE 0
                 node == IF left = 0 \/ ~isTemplate(tree[left])
                         THEN resolve(tree, sel.from, 1) ELSE left
             IN  execute("foldSelection", sel,
                         traverse(tree, DocText(DocLines),
                                  [effects |-> <<>>, anchor |-> getAnchor(sel),
                                   walked |-> {}],
                                  node, sel.to, FALSE))

\* Ctrl-Alt-[: fold all templates of the document; the selection stays
FoldAll ==
    /\ Idle
    /\ \E sel \in Cursors :
          /\ LET tree == Tree(DocLines)
             IN  execute("foldAll", sel,
                         traverse(tree, DocText(DocLines),
                                  [effects |-> <<>>, anchor |-> getAnchor(sel),
                                   walked |-> {}],
                                  IF tree = <<>> THEN 0 ELSE 1, Infinity, TRUE))

\* name.includes( tokens.sectionHeader ): the styles that hold its text
IsSectionHeader(name) ==
    \E i \in DOMAIN name :
        name[i] \in {tokens.sectionHeader, tokens.sectionHeader1,
                     tokens.sectionHeader2, tokens.sectionHeader3,
                     tokens.sectionHeader4, tokens.sectionHeader5,
                     tokens.sectionHeader6}
\* Number( /mw-section--(\d)/u.exec( name )![ 1 ] ) for the levels of a
\* heading; 0 when exec returns null and the read of [ 1 ] throws
SectionLevel(name) ==
    LET found == {n \in 1..6 :
                     \E i \in DOMAIN name :
                         name[i] = "mw-section--"
                                       \o <<"1", "2", "3", "4", "5", "6">>[n]}
    IN  IF found = {} THEN 0 ELSE CHOOSE n \in found : TRUE
\* getLevel( pos ) of foldableLine
getLevel(tree, pos) ==
    Let(resolve(tree, pos, 1), LAMBDA node :
        IF node # 0 /\ IsSectionHeader(tree[node].name)
        THEN SectionLevel(tree[node].name) ELSE 7)

\* a fold range that was not computed: a TypeError was thrown
Thrown == [from |-> -2, to |-> -2]
\* foldableLine( view, line ) for line k of the document ls, the viewport
\* being the whole document with nothing folded
foldableLine(ls, tree, k) ==
    LET f == LineFrom(ls, k)
        t == f + Len(ls[k].text)
        level == getLevel(tree, f)
        to == Len(DocText(ls))
        hit == First({j \in (k + 1)..Len(ls) :
                         getLevel(tree, LineFrom(ls, j)) <= level})
    IN  IF level = 0 THEN Thrown
        ELSE IF level > 6 THEN NoRange
        ELSE IF hit # 0
        THEN IF getLevel(tree, LineFrom(ls, hit)) = 0 THEN Thrown
             ELSE [from |-> t, to |-> LineFrom(ls, hit) - 1]
        ELSE IF to > t THEN [from |-> t, to |-> to]
        ELSE NoRange

\* the click on the gutter next to line k: nothing is folded yet
FoldLine ==
    /\ Idle
    /\ \E k \in 1..lineNo :
          Let(foldableLine(DocLines, Tree(DocLines), k), LAMBDA range :
              view' = [view EXCEPT
                          !.command = "foldLine",
                          !.clicked = k,
                          !.error = IF range = Thrown THEN "TypeError" ELSE @,
                          !.effects = IF range \in {Thrown, NoRange} THEN @
                                      ELSE <<range>>])

NextFold == Next \/ Select \/ FoldHandler \/ FoldSelection \/ FoldAll

SpecFold == InitVars("fold") /\ [][NextFold]_vars

NextHeading == Next \/ FoldLine

SpecHeading == InitVars("heading") /\ [][NextHeading]_vars

\* the documents of templates and extension tags and those of headings,
\* with the fold commands and the click on the gutter
NextRanges == NextFold \/ FoldLine

SpecRanges ==
    (InitVars("fold") \/ InitVars("heading")) /\ [][NextRanges]_vars

\* ------------------------------------------------------------------------
\* Folding on indentation (foldOnIndent)
\* ------------------------------------------------------------------------
\* the characters String.prototype.trim and /\s/ take for white space, of
\* those the lines below are made of
WhiteSpace == {" ", "\t"}
\* String.prototype.trim
trim(text) ==
    LET black == {i \in DOMAIN text : text[i] \notin WhiteSpace}
    IN  IF black = {} THEN <<>> ELSE SubSeq(text, First(black), Last(black))
\* getIndent( line ): the length of the white space the line begins with,
\* every tab replaced by tabSize spaces
getIndent(text, tabSize) ==
    LET n == Run(text, 0, WhiteSpace)
    IN  n + (tabSize - 1) * Cardinality({i \in 1..n : text[i] = "\t"})
\* the loop of foldOnIndent from line j on: the line it stops at, and
\* whether all the lines it passed are blank
RECURSIVE IndentLoop(_, _, _, _, _)
IndentLoop(ls, tabSize, indent, j, empty) ==
    IF j >= Len(ls) THEN [j |-> j, empty |-> empty]
    ELSE IF trim(ls[j + 1].text) # <<>>
    THEN IF indent >= getIndent(ls[j + 1].text, tabSize)
         THEN [j |-> j, empty |-> FALSE]
         ELSE IndentLoop(ls, tabSize, indent, j + 1, FALSE)
    ELSE IndentLoop(ls, tabSize, indent, j + 1, empty)
\* foldOnIndent for line number of the document ls: start is the start of
\* that line and from its end
foldOnIndent(ls, tabSize, number) ==
    LET text == ls[number].text
        from == LineFrom(ls, number) + Len(text)
    IN  IF trim(text) = <<>> THEN NoRange
        ELSE Let(IndentLoop(ls, tabSize, getIndent(text, tabSize), number, TRUE),
                 LAMBDA r :
                     IF r.empty \/ r.j = number THEN NoRange
                     ELSE [from |-> from,
                           to |-> LineFrom(ls, r.j) + Len(ls[r.j].text)])

\* lines that are blank, flush and indented by spaces and by a tab
IndentTexts ==
    {<<>>, <<" ">>, <<"\t">>, <<"a">>, <<" ", "a">>, <<" ", " ", "a">>,
     <<"\t", "a">>}
IndentDocs ==
    UNION {[1..n -> {[text |-> t, toks |-> <<>>] : t \in IndentTexts}] :
              n \in 1..MaxIndentLines}
TabSizes == {1, 4}

\* a document and a tab size; nothing is tokenized
InitIndent ==
    /\ family = "indent"
    /\ lineNo = 0
    /\ line = <<>>
    /\ stream = [str |-> <<>>, pos |-> 0, start |-> 0]
    /\ state = startState
    /\ mode = NewMode
    /\ heap = <<>>
    /\ before = 0
    /\ style = <<>>
    /\ fault = "none"
    /\ stalls = 0
    /\ rollbacks = 0
    /\ toks = <<>>
    /\ doc \in IndentDocs
    /\ phase = "plain"
    /\ snap = startState
    /\ fed = <<>>
    /\ fedAt = 0
    /\ trace = <<>>
    /\ calls = <<>>
    /\ trace1 = <<>>
    /\ \E n \in TabSizes :
          view = [command |-> "none", selection |-> [from |-> 0, to |-> 0],
                  effects |-> <<>>, cursor |-> 0, tooltip |-> NoRange,
                  walked |-> {}, clicked |-> 0, error |-> "none",
                  tabSize |-> n]

\* the fold service is asked for the range of line k
FoldService ==
    /\ family = "indent"
    /\ \E k \in DOMAIN doc :
          Let(foldOnIndent(doc, view.tabSize, k), LAMBDA range :
              view' = [view EXCEPT
                          !.command = "foldOnIndent",
                          !.clicked = k,
                          !.effects = IF range = NoRange THEN <<>>
                                      ELSE <<range>>])
    /\ UNCHANGED <<family, lineNo, line, stream, state, mode, heap, before,
                   style, fault, stalls, rollbacks, toks, doc, phase, snap,
                   fed, fedAt, trace, calls, trace1>>

SpecIndent == InitIndent /\ [][FoldService]_vars

\* ------------------------------------------------------------------------
\* Properties
\* ------------------------------------------------------------------------
Range(f) == {f[i] : i \in DOMAIN f}

\* the State objects in use: the host's and the nested ones of the tags
States == {state} \cup {heap[i] : i \in {j \in DOMAIN heap : IsState(heap[j])}}

\* C1: every token call made while the stream is not at the end of the line
\* leaves the cursor strictly beyond the position at which the call began
C1_EveryCallAdvances == \A i \in DOMAIN toks : toks[i].to > toks[i].from

\* C2: after any sequence of token calls from startState the counters
\* nTemplate, nLink and nExt are all >= 0
C2_CountersNonNegative ==
    \A s \in States : s.nTemplate >= 0 /\ s.nLink >= 0 /\ s.nExt >= 0

\* a closing template bracket has just counted the only open template out
C2_Witness ==
    /\ toks # <<>>
    /\ before > 0
    /\ tags.templateBracket \in Range(style)
    /\ state.nTemplate = 0

\* C3: no sequence of token calls pops the empty continuation stack:
\* state.tokenize is a defined continuation in every reachable state
C3_TokenizeDefined ==
    /\ fault # "TypeError"
    /\ \A s \in States :
          /\ s.tokenize # Undefined
          /\ \A i \in DOMAIN s.stack : s.stack[i] # Undefined

\* a construct left open on the line before was aborted at the start of
\* this line, which emptied the stack
C3_Witness ==
    /\ lineNo > 1
    /\ toks # <<>>
    /\ toks[1].to = 0
    /\ state.stack = <<>>
    /\ state.tokenize = KWiki(<<>>)

\* C4: copyState( s ) is a true snapshot: once the lines handed to the one
\* of s and c have been handed to the other as well, the two runs made the
\* same calls with the same (line, end position, style), and at no moment
\* does the second run leave the sequence of the first
C4_TrueSnapshot ==
    phase = "second" =>
        /\ Len(trace) <= Len(trace1)
        /\ \A i \in DOMAIN trace : trace[i] = trace1[i]
        /\ (AtLineEnd /\ fedAt = Len(fed)) => trace = trace1

\* what can be observed of a State: the closures with the variables they
\* captured, and the nested sub-state itself in place of the reference
ViewCont(h, k) == IF k.fn = "eatLinkText" THEN [k EXCEPT !.cell = h[k.cell]] ELSE k
RECURSIVE View(_, _)
View(h, st) ==
    [tokenize |-> ViewCont(h, st.tokenize),
     stack |-> [i \in 1..Len(st.stack) |-> ViewCont(h, st.stack[i])],
     inHtmlTag |-> st.inHtmlTag, extName |-> st.extName,
     extMode |-> st.extMode,
     extState |-> IF st.extState = 0 THEN <<>>
                  ELSE IF IsState(h[st.extState])
                  THEN <<View(h, h[st.extState])>>
                  ELSE <<h[st.extState]>>,
     nTemplate |-> st.nTemplate, nLink |-> st.nLink, nExt |-> st.nExt]

\* C5: after c = copyState( s ), calls on the one of s and c change nothing
\* that can be observed of the other, and the nested sub-state of the copy
\* is an object of its own
C5_CopyIsSeparate ==
    /\ [][(phase # "plain" /\ phase' = phase)
              => View(heap', snap') = View(heap, snap)]_vars
    /\ [](phase # "plain" /\ state.extState # 0
              => snap.extState # state.extState)

\* the name of the template the line begins with and the number of its words
NameOf(l) == SubSeq(l, 3, First({i \in 3..Len(l) : l[i] = "|"} \cup {Len(l) + 1}) - 1)
Words(w) == Cardinality({i \in DOMAIN w : w[i] # " " /\ (i = 1 \/ w[i - 1] = " ")})
InTemplate(tag) == <<"mw-template-ground", tag>>

\* C6 as stated: a template `{{name|arg}}` with a plain name and a plain
\* argument makes exactly five tokens: bracket, name, delimiter, argument,
\* bracket, and leaves templateDepth 0 and the stack as it was
C6_FiveTokens ==
    (family = "template" /\ lineNo = 1 /\ line \in Templates /\ AtLineEnd) =>
        /\ [i \in DOMAIN toks |-> toks[i].style]
              = <<InTemplate(tags.templateBracket), InTemplate(tags.templateName),
                  InTemplate(tags.templateDelimiter), InTemplate(tags.template),
                  InTemplate(tags.templateBracket)>>
        /\ state.nTemplate = 0
        /\ state.stack = <<>>
        /\ state.tokenize = KWiki(<<>>)

\* the tokens of a template whose name has n words
TemplateStyles(n) ==
    <<InTemplate(tags.templateBracket)>>
        \o [i \in 1..n |-> InTemplate(tags.templateName)]
        \o <<InTemplate(tags.templateDelimiter), InTemplate(tags.template),
             InTemplate(tags.templateBracket)>>

\* C6, amended: a template `{{name|arg}}` with a plain name and a plain
\* argument makes the tokens bracket, one name token for each word of the
\* name, delimiter, argument, bracket, every one of them advancing;
\* templateDepth is 1 between the brackets and 0 behind the closing one,
\* where the stack and the continuation are those of startState
C6_TokenPerWord ==
    (family = "template" /\ lineNo = 1 /\ line \in Templates) =>
        LET expected == TemplateStyles(Words(NameOf(line)))
        IN  /\ Len(toks) <= Len(expected)
            /\ \A i \in DOMAIN toks : /\ toks[i].style = expected[i]
                                      /\ toks[i].to > toks[i].from
            /\ (toks # <<>> /\ ~AtLineEnd) => state.nTemplate = 1
            /\ AtLineEnd => /\ Len(toks) = Len(expected)
                            /\ state.nTemplate = 0
                            /\ state.stack = <<>>
                            /\ state.tokenize = KWiki(<<>>)

\* a template with a name of two words has been tokenized
C6_Witness ==
    /\ family = "template" /\ lineNo = 1 /\ line \in Templates /\ AtLineEnd
    /\ Words(NameOf(line)) = 2
    /\ Len(toks) = 6
    /\ state.nTemplate = 0

\* the document is a template left open and lines of plain text
OpenDoc(first) ==
    /\ family = "template"
    /\ lineNo >= 1
    /\ DocLines[1].text \in first
    /\ \A k \in 2..Len(DocLines) : DocLines[k].text \in PlainTail
\* the lines behind the first that had a call, and whether there is one
Called == {k \in 2..Len(DocLines) : DocLines[k].toks # <<>>}
NoFold == \A pos \in DOMAIN Folds : Folds[pos] = NoRange

RunStart(s, p) == Last({q \in 0..p : q = 0 \/ s[q] # "'"})
RunLength(s, p) == Run(s, RunStart(s, p), {"'"})

\* C8: on a line of five apostrophes, plain text and five apostrophes each
\* run is consumed as a bold marker of three and an italic marker of two,
\* the text between them is strong and em, no rollback is performed and
\* isBold and isItalic are not both set at the end of the line
C8_FiveAndFive ==
    (family = "quote" /\ lineNo = 1 /\ line \in FiveAndFive) =>
        LET n == Len(line)
        IN  /\ rollbacks = 0
            /\ \A i \in DOMAIN toks :
                  LET t == toks[i]
                  IN  \/ /\ t.from \in {0, n - 5}
                         /\ t.to = t.from + 3
                         /\ t.style = <<tags.apostrophesBold>>
                      \/ /\ t.from \in {3, n - 2}
                         /\ t.to = t.from + 2
                         /\ t.style = <<tags.apostrophesItalic>>
                      \/ /\ t.from >= 5 /\ t.to > t.from /\ t.to <= n - 5
                         /\ t.style = <<tags.strong, tags.em>>
            /\ AtLineEnd => ~mode.isBold /\ ~mode.isItalic

\* the line of five, text and five has been tokenized to its end
C8_Witness ==
    /\ family = "quote" /\ lineNo = 1 /\ line \in FiveAndFive /\ AtLineEnd
    /\ Len(toks) >= 5
    /\ toks[Len(toks)].style = <<tags.apostrophesItalic>>

\* the apostrophe at offset p of s has no apostrophe next to it
Lone(s, p) == p < Len(s) /\ s[p + 1] = "'" /\ RunLength(s, p) = 1

\* C9: the call of eatWikiText that begins at an apostrophe with no other
\* apostrophe next to it leaves isBold, isItalic and the three rollback
\* candidates as they were and returns the style eatWikiText gives to plain
\* text there; the token handed to the host for it has that style
C9_LoneApostrophe ==
    family = "quote" =>
        /\ \A i \in DOMAIN calls :
              (calls[i].wiki /\ Lone(stream.str, calls[i].from)) =>
                  /\ calls[i].bold[2] = calls[i].bold[1]
                  /\ calls[i].italic[2] = calls[i].italic[1]
                  /\ calls[i].first[2] = calls[i].first[1]
                  /\ calls[i].to > calls[i].from
                  /\ calls[i].style = calls[i].plain
        /\ \A j \in DOMAIN toks :
              Lone(stream.str, toks[j].from) =>
                  \E i \in DOMAIN calls : /\ calls[i].from = toks[j].from
                                          /\ calls[i].wiki
                                          /\ toks[j].style = calls[i].plain

\* an apostrophe on its own inside bold text has been tokenized
C9_Witness ==
    /\ family = "quote"
    /\ toks # <<>>
    /\ Lone(stream.str, toks[Len(toks)].from)
    /\ toks[Len(toks)].from > 0
    /\ tags.strong \in Range(toks[Len(toks)].style)

\* the calls of eatWikiText that read a run of apostrophes from its first
\* one on: i is the call at the first apostrophe, or follows such a call
RECURSIVE ReadsRun(_)
ReadsRun(i) ==
    /\ calls[i].wiki
    /\ calls[i].from < Len(stream.str)
    /\ stream.str[calls[i].from + 1] = "'"
    /\ \/ calls[i].from = RunStart(stream.str, calls[i].from)
       \/ /\ i > 1
          /\ calls[i - 1].to = calls[i].from
          /\ calls[i - 1].from >= RunStart(stream.str, calls[i].from)
          /\ ReadsRun(i - 1)
\* what a call does: the number of characters read, isBold toggled,
\* isItalic toggled
Does(e) ==
    <<e.to - e.from, e.bold[2] # e.bold[1], e.italic[2] # e.italic[1]>>
Marker(e, tag) == e.style # <<>> /\ e.style[Len(e.style)] = tag

Tokens == AllLeaves(DocLines, Len(DocLines))
Text == DocText(DocLines)
Spans == Tree(DocLines)
\* the document at hand: its tokens, its text and its spans
Document == [tokens |-> Tokens, text |-> Text, tree |-> Spans]
IsOpening(d, t) == isTemplateBracket(t) /\ d.text[t.from + 1] = "{"
IsClosing(d, t) == isTemplateBracket(t) /\ d.text[t.from + 1] = "}"
\* the number of templates open behind token k
Depth(d, k) ==
    Cardinality({l \in 1..k : IsOpening(d, d.tokens[l])})
        - Cardinality({l \in 1..k : IsClosing(d, d.tokens[l])})
\* the closing bracket of the template token o opens, 0 when it has none
Closing(d, o) ==
    First({c \in (o + 1)..Len(d.tokens) :
              IsClosing(d, d.tokens[c]) /\ Depth(d, c) = Depth(d, o) - 1})
\* the tokens of the template itself: its name, delimiters and arguments
Own(d, o) ==
    {k \in (o + 1)..(Closing(d, o) - 1) :
        ~isTemplateBracket(d.tokens[k]) /\ Depth(d, k) = Depth(d, o)}
FirstDelimiter(d, o) == First({k \in Own(d, o) : isDelimiter(d.tokens[k])})
\* the templates that are closed and have a delimiter of their own
Balanced(d) ==
    {o \in DOMAIN d.tokens :
        /\ IsOpening(d, d.tokens[o])
        /\ Closing(d, o) # 0
        /\ FirstDelimiter(d, o) # 0}
\* the range the template opened by o folds to
Arguments(d, o) ==
    Let(<<d.tokens[FirstDelimiter(d, o)].to, d.tokens[Closing(d, o)].from>>,
        LAMBDA r : IF r[1] < r[2] THEN [from |-> r[1], to |-> r[2]]
                   ELSE NoRange)
\* the span token k lies in
SpanOf(d, k) == resolve(d.tree, d.tokens[k].from, 1)
\* foldable( state, node, tree ) at the span of token k
FoldAt(d, k) == foldableNode(d.tree, d.text, SpanOf(d, k))

\* C11: for a balanced template with a delimiter of its own, foldable
\* anchored at any span of the template itself, between its brackets,
\* returns the range from the end of its first own delimiter to the start of
\* its closing bracket, whatever templates are nested in it
C11_SameRangeAtEverySpan ==
    Let(Document, LAMBDA d :
        \A o \in Balanced(d) : \A k \in Own(d, o) :
            FoldAt(d, k) = Arguments(d, o))

\* the text of token t
TextOf(d, t) == SubSeq(d.text, t.from + 1, t.to)
\* token k is the `>` that ends the opening tag of an extension tag
IsOpenTag(d, k) ==
    /\ k > 2
    /\ isExtBracket(d.tokens[k]) /\ TextOf(d, d.tokens[k]) = <<">">>
    /\ TextOf(d, d.tokens[k - 1]) \in configTags
    /\ isExtBracket(d.tokens[k - 2]) /\ TextOf(d, d.tokens[k - 2]) = <<"<">>
\* the `</` of the closing tag behind token k, 0 when there is none
CloseTag(d, k) ==
    First({c \in (k + 1)..Len(d.tokens) :
              /\ isExtBracket(d.tokens[c])
              /\ TextOf(d, d.tokens[c]) = <<"<", "/">>})
\* the extension tags that have content and a closing tag
Tags(d) ==
    {k \in DOMAIN d.tokens : IsOpenTag(d, k) /\ CloseTag(d, k) > k + 1}

\* C12: for an extension tag with content and a closing tag, foldable
\* anchored at a span of the content returns the range from the end of the
\* `>` of the opening tag to the start of the `</` of the closing tag
C12_TagContentFolds ==
    Let(Document, LAMBDA d :
        \A k \in Tags(d) : \A c \in (k + 1)..(CloseTag(d, k) - 1) :
            FoldAt(d, c) = [from |-> d.tokens[k].to,
                            to |-> d.tokens[CloseTag(d, k)].from])

\* the heading level of a line: the number of `=` at its start, 7 for a
\* line that is no heading
LevelOf(l) ==
    IF l \in {Heading(1), Heading(2), Heading(3)}
    THEN First({n \in 1..3 : l = Heading(n)}) ELSE 7
\* the first line behind line k that ends the section of line k
SectionEnd(ls, k) ==
    First({j \in (k + 1)..Len(ls) : LevelOf(ls[j].text) <= LevelOf(ls[k].text)})
\* the range the line fold of line k has
Section(ls, k) ==
    LET t == LineFrom(ls, k) + Len(ls[k].text)
    IN  IF LevelOf(ls[k].text) = 7 THEN NoRange
        ELSE IF SectionEnd(ls, k) # 0
        THEN [from |-> t, to |-> LineFrom(ls, SectionEnd(ls, k)) - 1]
        ELSE [from |-> t, to |-> Len(DocText(ls))]

\* C13: the line fold of a heading line of level L runs from the end of
\* the line to just before the first later line whose heading level is at
\* most L, or to the end of the document; a line that is no heading has no
\* line fold
C13_SectionFolds ==
    view.command = "foldLine" =>
        /\ view.error = "none"
        /\ view.effects =
               IF Section(DocLines, view.clicked) = NoRange THEN <<>>
               ELSE <<Section(DocLines, view.clicked)>>

\* the template token k is part of: the opening bracket before it that is
\* still open at k (k is no bracket and lies in a template)
Enclosing(d, k) ==
    Last({o \in 1..(k - 1) :
             IsOpening(d, d.tokens[o]) /\ Depth(d, o) = Depth(d, k)})
\* the opening tag whose content token k is, 0 when it is no content
TagOf(d, k) ==
    Last({o \in 1..(k - 1) :
             /\ IsOpenTag(d, o)
             /\ \A c \in (o + 1)..k :
                    ~(/\ isExtBracket(d.tokens[c])
                      /\ TextOf(d, d.tokens[c]) = <<"<", "/">>)})
\* foldable anchored at token k has nothing to resolve
Unresolvable(d, k) ==
    /\ ~isTemplateBracket(d.tokens[k])
    /\ IF Depth(d, k) > 0
       THEN Let(Enclosing(d, k), LAMBDA o :
                \/ Closing(d, o) = 0
                \/ FirstDelimiter(d, o) = 0
                \/ Arguments(d, o) = NoRange)
       ELSE TagOf(d, k) = 0 \/ CloseTag(d, TagOf(d, k)) = 0

\* C14: foldable returns no range, and does not throw, when the anchor is
\* neither part of a template nor content of an extension tag, when the
\* closing bracket is missing, when the template has no delimiter of its
\* own, or when its first delimiter ends at the closing bracket
C14_NoRangeWhenUnresolvable ==
    Let(Document, LAMBDA d :
        \A k \in DOMAIN d.tokens :
            Unresolvable(d, k) => FoldAt(d, k) = NoRange)

\* the templates that are never closed
Unclosed(d) ==
    {o \in DOMAIN d.tokens : IsOpening(d, d.tokens[o]) /\ Closing(d, o) = 0}
\* the delimiters of the unclosed template opened by o
OpenDelimiters(d, o) ==
    {k \in (o + 1)..Len(d.tokens) :
        isDelimiter(d.tokens[k]) /\ Depth(d, k) = Depth(d, o)}

\* C15: a fold of the selection folds no template whose bracket never
\* closes, and the sibling walk of a query on such a template looks at no
\* span that begins behind the end of the selection
C15_WalkEndsAtSelectionEnd ==
    view.command = "foldSelection" =>
        Let(Document, LAMBDA d :
            /\ \A o \in Unclosed(d) : \A k \in OpenDelimiters(d, o) :
                   \A e \in DOMAIN view.effects :
                       view.effects[e].from # d.tokens[k].to
            /\ \A j \in view.walked : d.tree[j].from <= view.selection.to)

\* the ranges of a sequence lie one behind the other
Increasing(rs) ==
    \A i \in DOMAIN rs : \A j \in DOMAIN rs :
        i < j => rs[i].from < rs[i].to /\ rs[i].to <= rs[j].from

\* C16: the ranges one traversal of a fold command collects are pairwise
\* disjoint and strictly increasing: none starts inside an earlier one
C16_RangesIncrease ==
    view.command \in {"foldSelection", "foldAll"} => Increasing(view.effects)

\* the greatest of the ends of the ranges rs and of pos
Rightmost(pos, rs) ==
    CHOOSE m \in {pos} \cup {rs[i].to : i \in DOMAIN rs} :
        \A n \in {pos} \cup {rs[i].to : i \in DOMAIN rs} : n <= m
\* the ranges of rs that hide pos
Hiding(pos, rs) == {i \in DOMAIN rs : rs[i].from <= pos /\ rs[i].to > pos}
Folded(c) == view.command = c /\ view.effects # <<>>

\* C17 as claimed: after a fold of the selection or of the whole document
\* that folds a range, the cursor is at the greatest of the former
\* rightmost selection end and the ends of the ranges folded
C17_CursorAtRightmostEnd ==
    Folded("foldSelection") \/ Folded("foldAll") =>
        view.cursor = Rightmost(view.selection.to, view.effects)

\* C17: after a fold of the selection that folds a range the cursor is at
\* the greatest of the former rightmost selection end and the ends of the
\* ranges folded; after a fold of the whole document it is at the end of
\* the folded range the former selection end lies in, and stays at the
\* former selection end when that lies in none
C17_CursorAfterBulkFold ==
    /\ Folded("foldSelection") =>
           view.cursor = Rightmost(view.selection.to, view.effects)
    /\ Folded("foldAll") =>
           Let(Hiding(view.selection.to, view.effects), LAMBDA h :
               /\ Cardinality(h) <= 1
               /\ view.cursor = IF h = {} THEN view.selection.to
                                ELSE view.effects[First(h)].to)
C17_Witness ==
    /\ Folded("foldAll")
    /\ Len(view.effects) > 1
    /\ view.selection.to < view.effects[2].from
    /\ view.cursor = view.effects[1].to

\* the host makes the first call of token on the line at hand
FirstCall == toks = <<>> /\ Len(toks') = 1 /\ lineNo' = lineNo
\* the call took the continuation at hand off: the one suspended last is
\* back in place, and nothing was read
Popped ==
    /\ state'.tokenize = state.stack[Len(state.stack)]
    /\ state'.stack = SubSeq(state.stack, 1, Len(state.stack) - 1)
    /\ Len(calls') = 1
    /\ stream'.pos = 0
    /\ fault' = "none"

\* C18: a link still in its target part (page name, section, URL) when a
\* line starts is given up by the first call on that line: nLink goes down
\* by one, one suspended continuation is popped, the style returned is
\* empty and no error is styled
C18_LinkTargetAborted ==
    [][FirstCall /\ state.tokenize.fn \in {"inLink", "inLinkToSection",
                                            "inExternalLink"}
          => /\ Popped
             /\ state'.nLink = state.nLink - 1
             /\ style' = <<>>]_vars
C18_Witness ==
    /\ lineNo = 2
    /\ Len(calls) = 1
    /\ calls[1].fn = "inLinkToSection"
    /\ calls[1].to = 0 /\ calls[1].style = <<>>
    /\ state.nLink = 0
    /\ state.tokenize.fn = "eatWikiText"

\* the continuations of a template variable and of the attributes of an
\* extension tag
OpenConstructs == {"inVariable", "inVariableDefault", "eatExtTagAttribute"}
\* the text the first call on the line has read
FirstRead == SubSeq(stream'.str, 1, stream'.pos)

\* C19 as claimed: a template variable or an attribute list of an extension
\* tag that is open when a line starts is given up by the first call on
\* that line: its suspended continuation is popped, no error is styled
C19_OpenConstructAborted ==
    [][FirstCall /\ state.tokenize.fn \in OpenConstructs
          => Popped /\ style' = <<>>]_vars

\* C19: a template variable or an attribute list of an extension tag that
\* is open when a line starts is not given up there: the first call on the
\* line reads on in the same continuation, and the stack gets shorter only
\* when that call reads the end of the construct, `}}}` or `/>`
C19_OpenConstructGoesOn ==
    [][FirstCall /\ state.tokenize.fn \in OpenConstructs
          => /\ stream'.pos > 0
             /\ calls'[1].fn = state.tokenize.fn
             /\ Len(state'.stack) < Len(state.stack)
                    => FirstRead \in {<<"}", "}", "}">>, <<"/", ">">>}]_vars
C19_Witness ==
    /\ lineNo = 2
    /\ Len(calls) = 1
    /\ calls[1].fn = "inVariable"
    /\ calls[1].from = 0 /\ calls[1].to = 3
    /\ line = <<"}", "}", "}">>
    /\ style = <<tags.templateVariableBracket>>
    /\ state.tokenize.fn = "eatWikiText"

\* one call of a continuation was made, from position stream.pos
OneCall == lineNo' = lineNo /\ Len(calls') = Len(calls) + 1
\* the call was made to eatWikiText, by the continuation or by the one of a
\* tag's attributes that found no attribute
InWikiText ==
    \/ state.tokenize.fn = "eatWikiText"
    \/ calls'[Len(calls')].wiki
\* the name of the close tag `</name` at the cursor (<<>> when there is
\* none) as it is written and as HTML reads it, in lower case
CloseTagName ==
    IF LitAt(stream.str, stream.pos, <<"<", "/">>)
    THEN Slice(stream.str, stream.pos + 2,
               stream.pos + 2 + Run(stream.str, stream.pos + 2, TagNameCh))
    ELSE <<>>
\* the top of the stack of open HTML tags
Top(h) == IF h = <<>> THEN <<>> ELSE h[Len(h)]
Front(h) == SubSeq(h, 1, Len(h) - 1)
\* the tokens of the line so far, as text and style
Read(k) == [text |-> Slice(stream.str, toks[k].from, toks[k].to),
            style |-> toks[k].style]
\* the close tags of the line that were taken as tags: bracket `</`, then
\* the name, then the bracket `>` if the line has it
AcceptedAsTag(k) ==
    /\ Read(k).text = <<"<", "/">>
    /\ Read(k).style = <<tags.htmlTagBracket>>
    /\ k < Len(toks) =>
          /\ Read(k + 1).style = <<tags.htmlTagName>>
          /\ toLowerCase(Read(k + 1).text) \in permittedHtmlTags
          /\ k + 1 < Len(toks) /\ Ch(stream.str, toks[k + 1].to) = ">" =>
                Read(k + 2) = [text |-> <<">">>, style |-> <<tags.htmlTagBracket>>]

\* C20: a close tag `</name` of a permitted HTML tag read by eatWikiText is
\* taken as a tag (bracket, name, bracket) only when the name, in lower
\* case, is the top of state.inHtmlTag, and the top is then removed; when
\* the name differs, the stack is empty or the tag is void the call
\* returns the error style and the continuation and its stack stay as they
\* are. `>` read behind the attributes of an open tag pushes the tag's name
\* unless the tag is void; `/>` pushes nothing.
C20_CloseTagMatchesOpenTag ==
    [][OneCall =>
        /\ InWikiText /\ toLowerCase(CloseTagName) \in permittedHtmlTags =>
              IF /\ toLowerCase(CloseTagName) = Top(state.inHtmlTag)
                 /\ toLowerCase(CloseTagName) \notin implicitlyClosedHtmlTags
              THEN /\ style' = <<tags.htmlTagBracket>>
                   /\ stream'.pos = stream.pos + 2
                   /\ state'.inHtmlTag = Front(state.inHtmlTag)
                   /\ state'.tokenize.fn = "eatTagName"
              ELSE /\ style' = <<tags.error>>
                   /\ stream'.pos > stream.pos
                   /\ state'.tokenize = state.tokenize
                   /\ state'.stack = state.stack
        /\ (\A k \in DOMAIN toks : Read(k).text = <<"<", "/">> =>
                Read(k).style = <<tags.htmlTagBracket>> /\ AcceptedAsTag(k))'
        /\ state.tokenize.fn = "eatTagName" /\
              state'.tokenize.fn = "eatHtmlTagAttribute" =>
                state'.tokenize.name =
                    Slice(stream.str, stream.pos,
                          stream.pos + Run(stream.str, stream.pos, TagNameCh))
        /\ state.tokenize.fn = "eatHtmlTagAttribute" /\ Peek(stream) = ">" =>
              state'.inHtmlTag =
                  IF state.tokenize.name \in implicitlyClosedHtmlTags
                  THEN state.inHtmlTag
                  ELSE Append(state.inHtmlTag, state.tokenize.name)
        /\ state.tokenize.fn = "eatHtmlTagAttribute" /\
              Looking(stream, <<"/", ">">>) =>
                state'.inHtmlTag = state.inHtmlTag]_vars
\* `</i>` closes the inner of two open tags: b stays open
C20_Witness ==
    /\ family = "html"
    /\ lineNo = 2
    /\ line = <<"<", "/", "i", ">">>
    /\ Len(toks) = 3
    /\ \A k \in 1..3 : Read(k).style =
          <<IF k = 2 THEN tags.htmlTagName ELSE tags.htmlTagBracket>>
    /\ state.inHtmlTag = << <<"b">> >>
    /\ state.tokenize.fn = "eatWikiText"

\* eatWikiText is called at an open tag `<name` of a registered extension
OpensExtTag ==
    /\ InWikiText
    /\ Peek(stream) = "<"
    /\ toLowerCase(Slice(stream.str, stream.pos + 1,
                         stream.pos + 1 + Run(stream.str, stream.pos + 1, TagNameCh)))
          \in configTags
\* the call is made by a continuation of an extension tag and stays in it
InExtTag ==
    /\ \/ state.tokenize.fn \in {"eatExtTagAttribute", "eatExtTagArea",
                                  "eatExtCloseTag", "eatExtTokens"}
       \/ state.tokenize.fn = "eatTagName" /\ ~state.tokenize.isHtmlTag
    /\ ~calls'[Len(calls')].wiki

\* C21 as claimed: the call that opens a registered extension tag raises
\* state.nExt by one and the call that reads its close tag lowers it by one
C21_ExtTagCountsAsDepth ==
    [][OneCall =>
         /\ OpensExtTag => state'.nExt = state.nExt + 1
         /\ state.tokenize.fn = "eatExtCloseTag" => state'.nExt = state.nExt - 1]_vars

\* C21: no call made for an extension tag - its opening bracket, its name,
\* its attributes, its content, its close tag - changes state.nExt: the
\* content of the tag is tokenized at the depth of the text around the tag
C21_ExtTagKeepsDepth ==
    [][OneCall /\ (OpensExtTag \/ InExtTag) => state'.nExt = state.nExt]_vars
\* the content of `<pre>` has been read, at the depth of the text before it
C21_Witness ==
    /\ family = "wiki"
    /\ line = <<"<", "p", "r", "e", ">", "a">>
    /\ Len(toks) = 4
    /\ toks[4].from = 5 /\ toks[4].to = 6
    /\ state.tokenize.fn \in {"eatExtTagArea", "eatExtCloseTag", "eatExtTokens"}
    /\ state.nExt = 0

\* the label makeLocalStyle gives to style s in a State of counters t, e, l
LabelAt(t, e, l, s) ==
    makeLocalStyle([Machine EXCEPT !.st.nTemplate = t, !.st.nExt = e,
                                   !.st.nLink = l], s, "").ret
\* the depths the claim takes to be told apart: 0, 1, 2 or more
ThreeBuckets(n) == IF n > 2 THEN 2 ELSE n
\* the depths the ground names of makeLocalStyle tell apart
TemplateBucket(n) == IF n > 3 THEN 3 ELSE n
LinkBucket(n) == IF n > 0 THEN 1 ELSE 0

\* C22 as claimed: two States that differ in one counter only, by two
\* values that are both 2 or more, get the same label for every style
C22_ThreeBuckets ==
    \A s \in ComposeStyles, n \in Depths :
        /\ ThreeBuckets(n) = ThreeBuckets(state.nTemplate) =>
              LabelAt(n, state.nExt, state.nLink, s)
                  = LabelAt(state.nTemplate, state.nExt, state.nLink, s)
        /\ ThreeBuckets(n) = ThreeBuckets(state.nExt) =>
              LabelAt(state.nTemplate, n, state.nLink, s)
                  = LabelAt(state.nTemplate, state.nExt, state.nLink, s)
        /\ ThreeBuckets(n) = ThreeBuckets(state.nLink) =>
              LabelAt(state.nTemplate, state.nExt, n, s)
                  = LabelAt(state.nTemplate, state.nExt, state.nLink, s)

\* C22: the label tells apart the depths 0, 1, 2 and 3 or more of
\* nTemplate and of nExt and the depths 0 and 1 or more of nLink: two States
\* that differ in one counter only get the same label exactly when the two
\* values of that counter are in the same one of these buckets
C22_GroundBuckets ==
    \A s \in ComposeStyles, n \in Depths :
        /\ TemplateBucket(n) = TemplateBucket(state.nTemplate) <=>
              LabelAt(n, state.nExt, state.nLink, s)
                  = LabelAt(state.nTemplate, state.nExt, state.nLink, s)
        /\ TemplateBucket(n) = TemplateBucket(state.nExt) <=>
              LabelAt(state.nTemplate, n, state.nLink, s)
                  = LabelAt(state.nTemplate, state.nExt, state.nLink, s)
        /\ LinkBucket(n) = LinkBucket(state.nLink) <=>
              LabelAt(state.nTemplate, state.nExt, n, s)
                  = LabelAt(state.nTemplate, state.nExt, state.nLink, s)
\* a bracket was composed at depth 3 of templates and 2 of links
C22_Witness ==
    /\ family = "style"
    /\ calls # <<>>
    /\ calls[1].endGround = ""
    /\ state.nTemplate = 3 /\ state.nExt = 0 /\ state.nLink = 2
    /\ style = <<"mw-template3-link-ground", tags.templateBracket>>

\* the ground of a State of counters t, e, l, by the list of names in the
\* comment of makeLocalStyle: template, ext and link, in this order, the
\* first two with the ordinal 2 or 3 from the second level on
Ordinal(n) == CASE n = 1 -> "" [] n = 2 -> "2" [] OTHER -> "3"
GroundName(t, e, l) ==
    (IF t > 0 THEN "-template" \o Ordinal(t) ELSE "")
        \o (IF e > 0 THEN "-ext" \o Ordinal(e) ELSE "")
        \o (IF l > 0 THEN "-link" ELSE "")
Grounded(t, e, l, s) ==
    IF t + e + l > 0 THEN <<"mw" \o GroundName(t, e, l) \o "-ground">> \o s
    ELSE s
Counters == {"nTemplate", "nExt", "nLink"}

\* C23: makeLocalStyle( style, state, endGround ) returns the label of the
\* counters as they are before the call; afterwards the counter named by
\* endGround is lower by one and the other two are as before; without
\* endGround no counter changes; nothing else of the State changes
C23_LabelBeforeDecrement ==
    [][family = "style" =>
        LET c == calls'[1]
        IN  /\ style' = Grounded(state.nTemplate, state.nExt, state.nLink, c.style)
            /\ \A f \in Counters :
                  state'[f] = IF f = c.endGround THEN state[f] - 1 ELSE state[f]
            /\ \A f \in DOMAIN state \ Counters : state'[f] = state[f]]_vars
\* the bracket that closes the only open template carries its ground
C23_Witness ==
    /\ family = "style"
    /\ calls # <<>>
    /\ calls[1].endGround = "nTemplate"
    /\ state.nTemplate = 0 /\ state.nExt = 0 /\ state.nLink = 0
    /\ style = <<"mw-template-ground", tags.templateBracket>>

\* the content of an extension tag is being read
InExtContent == state.tokenize.fn \in {"eatExtTagArea", "eatExtTokens"}
\* the start of the matching close tag at or behind the cursor, -1 when the
\* line has none
CloseTagStart == CloseTagIndex(line, stream.pos, state.extName)
\* token k of the line, read from the text of the line
ReadOfLine(k) == [text |-> Slice(line, toks[k].from, toks[k].to),
                  style |-> toks[k].style]
\* the last element of a sequence
LastOf(s) == s[Len(s)]
\* token k is the bracket of a close tag of an extension, and the name and
\* the bracket `>` follow it when the line has been read that far
ExtCloseTagAt(k) ==
    /\ ReadOfLine(k).text = <<"<", "/">>
    /\ LastOf(ReadOfLine(k).style) = tags.extTagBracket
    /\ k < Len(toks) =>
          /\ LastOf(ReadOfLine(k + 1).style) = tags.extTagName
          /\ toks[k + 1].from = toks[k].to
          /\ k + 1 < Len(toks) =>
                /\ ReadOfLine(k + 2).text = <<">">>
                /\ LastOf(ReadOfLine(k + 2).style) = tags.extTagBracket

\* C24: while the content of an extension tag is read on a line that has
\* the matching close tag behind the cursor, no call of token leaves the
\* cursor behind the start of the close tag; the call that reaches that
\* start leaves the whole line in the stream, and the tokens that follow
\* are the bracket, the name and the bracket of the close tag
C24_ContentEndsAtCloseTag ==
    [][OneCall /\ InExtContent /\ CloseTagStart > -1 =>
         /\ stream'.pos <= CloseTagStart \/ stream.pos = CloseTagStart
         /\ stream'.pos = CloseTagStart =>
               /\ stream'.str = line
               /\ state'.tokenize = KExtTagArea(state.extName)
         /\ stream.pos = CloseTagStart =>
               /\ stream'.pos = stream.pos + 2
               /\ stream'.str = line
               /\ style' # <<>> /\ LastOf(style') = tags.extTagBracket
         /\ (\A k \in DOMAIN toks :
                LastOf(<<"">> \o ReadOfLine(k).style) = tags.extTagBracket
                   /\ ReadOfLine(k).text = <<"<", "/">> => ExtCloseTagAt(k))']_vars

\* the runs of tildes of the line that the tokens have covered: a run is
\* [from, len], from the index of its first tilde, with no tilde before it
\* and none behind it
TildeRuns ==
    {r \in (0..Len(line)) \X (1..Len(line)) :
        /\ Ch(line, r[1] - 1) # "~"
        /\ Run(line, r[1], {"~"}) = r[2]
        /\ stream.pos >= r[1] + r[2]}
\* the run is one token with the style of a signature
OneSignature(r) ==
    \E k \in DOMAIN toks :
        /\ toks[k].from = r[1]
        /\ toks[k].to = r[1] + r[2]
        /\ toks[k].style = <<tags.signature>>
\* no token that starts in the run has the style of a signature
NoSignature(r) ==
    \A k \in DOMAIN toks :
        toks[k].from >= r[1] /\ toks[k].from < r[1] + r[2] =>
            toks[k].style # <<tags.signature>>

\* C25 as claimed: a run of two to four tildes is one signature token
C25_TwoToFourTildes == \A r \in TildeRuns : r[2] \in 2..4 => OneSignature(r)

\* C25: a run of three to five tildes in wiki text is one signature token;
\* a run of two tildes (or of one) has no signature token
C25_ThreeToFiveTildes ==
    \A r \in TildeRuns :
        /\ r[2] \in 3..5 => OneSignature(r)
        /\ r[2] \in 1..2 => NoSignature(r)
\* five tildes behind a letter have been read as one signature
C25_Witness ==
    /\ family = "tilde"
    /\ line = <<"a", "~", "~", "~", "~", "~">>
    /\ Len(toks) = 2
    /\ toks[2] = [from |-> 1, to |-> 6, style |-> <<tags.signature>>, start |-> 1]

\* the call recorded a rollback candidate (prepareItalicForCorrection ran)
Recorded(c) == c.first[2] # c.first[1]
\* the call of the history cs that recorded the candidate a rollback at the
\* end of cs unwinds to: the one recorded last
RollbackCall(cs) ==
    cs[CHOOSE k \in DOMAIN cs :
          Recorded(cs[k]) /\ \A j \in DOMAIN cs : Recorded(cs[j]) => j <= k]
\* the token call performed a rollback
RolledBack == lineNo' = lineNo /\ rollbacks' = rollbacks + 1
\* where the continuations are called next: behind the tokens to replay
ResumeAt ==
    IF mode.oldTokens = <<>> THEN stream.pos
    ELSE mode.oldTokens[Len(mode.oldTokens)].pos
\* the first call of a continuation after a rollback: the history ends with
\* the call that reached the end of the line
Resumed ==
    /\ lineNo' = lineNo
    /\ rollbacks > 0
    /\ calls # <<>> /\ calls[Len(calls)].to >= Len(line)
    /\ Len(calls') > Len(calls)

\* C26: a token call that ends the line with a candidate recorded and with
\* isBold and isItalic set puts both flags back to what they were before
\* the call that recorded the candidate toggled isBold, clears the three
\* candidates and resumes one character behind the start of the `'''` of that
\* call, behind the tokens it replays or at once; the call made there reads
\* the two apostrophes left as an italic marker
C26_RollbackResumes ==
    [][/\ RolledBack =>
            LET c == RollbackCall(calls')
            IN  /\ Slice(line, c.from, c.to) = <<"'", "'", "'">>
                /\ mode'.isBold = c.bold[1]
                /\ mode'.isItalic = c.italic[1]
                /\ mode'.firstSingleLetterWord = 0
                /\ mode'.firstMultiLetterWord = 0
                /\ mode'.firstSpace = 0
                /\ ResumeAt' = c.from + 1
       /\ Resumed =>
            LET c == RollbackCall(calls)
                n == calls'[Len(calls) + 1]
            IN  /\ n.from = c.from + 1
                /\ n.to = c.from + 3
                /\ n.italic = <<c.italic[1], ~c.italic[1]>>
                /\ n.bold = <<c.bold[1], c.bold[1]>>]_vars

\* what persists of a State: the continuation, the suspended ones, the open
\* HTML tags and the counters
Persistent(st) ==
    [tokenize |-> st.tokenize, stack |-> st.stack, inHtmlTag |-> st.inHtmlTag,
     nTemplate |-> st.nTemplate, nLink |-> st.nLink, nExt |-> st.nExt]

\* C27: the token call that performs a rollback leaves the State as it was
\* at the position where the continuations are called next, that is before
\* the call that recorded the candidate: what was opened or closed between
\* that position and the end of the line is not in the State when the text
\* is read again
C27_StateOfResumePosition ==
    [][RolledBack =>
          Persistent(state') = Persistent(RollbackCall(calls').state)]_vars

\* the delimiters of table cells read behind the start of the line: they
\* reset isBold and isItalic
CellDelimiters ==
    {k \in DOMAIN calls :
        /\ calls[k].fn = "eatTableRow"
        /\ calls[k].from > 0
        /\ calls[k].style # <<>>
        /\ LastOf(calls[k].style) = tags.tableDelimiter}
\* the runs of three or more apostrophes of the line, by their first index
LongRuns ==
    {i \in DOMAIN line :
        /\ Run(line, i - 1, {"'"}) >= 3
        /\ (i > 1 => line[i - 1] # "'")}

C29_LineIsRead == AtLineEnd \/ TokenEnabled

\* what the first continuation called on a line finds: no token waits to be
\* replayed, both flags are off and no candidate is recorded
FreshFlags ==
    /\ mode.oldTokens = <<>>
    /\ calls' # <<>>
    /\ calls'[1].from = 0
    /\ calls'[1].bold[1] = FALSE
    /\ calls'[1].italic[1] = FALSE
    /\ calls'[1].first[1] = <<0, 0, 0>>
\* wasBold and wasItalic as the constructor sets them
SavedCleared ==
    /\ mode.wasBold = NewMode.wasBold
    /\ mode.wasItalic = NewMode.wasItalic

CandidateKept ==
    /\ AtLineEnd
    /\ line # <<>>
    /\ rollbacks = 0
    /\ \E k \in DOMAIN calls : calls[k].first[2] # <<0, 0, 0>>
\* the tokens the host got are the results of the calls of continuations
TokensAreCalls ==
    /\ Len(toks) = Len(calls)
    /\ \A i \in DOMAIN toks :
          toks[i].to = calls[i].to /\ toks[i].style = calls[i].style
\* a token call that returns a saved token
Replay == lineNo' = lineNo /\ mode.oldTokens # <<>> /\ toks' # toks

\* C31: on a line that recorded a candidate and ends without a rollback the
\* host gets the tokens of the continuation calls, in their order, with
\* their end positions and styles; a token call that returns a saved token
\* calls no continuation and leaves the State as it is
C31_ReplayIsFaithful ==
    [][/\ Replay => calls' = calls /\ state' = state
       /\ (CandidateKept => TokensAreCalls)']_vars
C31_Witness ==
    /\ CandidateKept
    /\ Len(toks) >= 4
    /\ \E j, k \in DOMAIN calls :
          /\ calls[j].first[2] # <<0, 0, 0>>
          /\ calls[k].first[2] # <<0, 0, 0>>
          /\ calls[j].first[2] # calls[k].first[2]

\* the candidates <<firstSingleLetterWord, firstMultiLetterWord, firstSpace>>
\* a call found (c.first[1]) and left (c.first[2]): the call recorded the
\* one of rank i, 1 the highest
RecordedRank(c, i) == c.first[2][i] # c.first[1][i]
\* a call records one candidate at most, at its end, and none of the rank
\* of the new one or above was recorded
RespectsPriority(c) ==
    \A i \in 1..3 :
        RecordedRank(c, i) =>
            /\ c.first[2][i] = c.to
            /\ \A j \in 1..3 : j <= i => c.first[1][j] = 0
            /\ \A j \in 1..3 : j # i => c.first[2][j] = c.first[1][j]
\* the candidate of the highest rank among those recorded
Highest(t) == IF t[1] # 0 THEN t[1] ELSE IF t[2] # 0 THEN t[2] ELSE t[3]

HeadingContinuation(k) ==
    \/ k.fn = "eatSectionHeader"
    \/ k.fn \in {"eatEnd", "eatBlock"} /\ k.style = <<tags.sectionHeader>>
HeadingOpen ==
    \/ HeadingContinuation(state.tokenize)
    \/ \E i \in DOMAIN state.stack : HeadingContinuation(state.stack[i])
HeadingStyles ==
    {tags.section, tags.sectionHeader, tags.sectionHeader1,
     tags.sectionHeader2, tags.sectionHeader3, tags.sectionHeader4,
     tags.sectionHeader5, tags.sectionHeader6}

\* C33: when a line is read to its end no continuation of a heading is in
\* place or suspended, and no token of the line behind a heading has a
\* style of the heading
C33_HeadingEndsWithLine ==
    /\ AtLineEnd => ~HeadingOpen
    /\ family = "section" /\ lineNo >= 2 =>
          \A i \in DOMAIN toks :
              \A j \in DOMAIN toks[i].style : toks[i].style[j] \notin HeadingStyles

\* the continuations of a free external link
InFreeExternalLink ==
    state.tokenize.fn \in {"eatFreeExternalLink", "eatFreeExternalLinkProtocol"}

\* C34: when a line is read to its end the continuation of a free external
\* link is not in place, and the first token of the next line does not get
\* the style of the link from it
C34_FreeLinkEndsWithLine ==
    [][/\ AtLineEnd' => ~InFreeExternalLink'
       /\ FirstCall /\ calls' # <<>> =>
             calls'[1].fn \notin {"eatFreeExternalLink",
                                  "eatFreeExternalLinkProtocol"}]_vars

\* the continuation of a comment: eatBlock( tags.comment, '-->' )
IsComment(k) == k.fn = "eatBlock" /\ k.style = <<tags.comment>>
\* the counters and the open HTML tags of a State
Frame(s) ==
    [inHtmlTag |-> s.inHtmlTag, nTemplate |-> s.nTemplate,
     nLink |-> s.nLink, nExt |-> s.nExt]
\* the State behind call k of the history cs, s being the State now
After(cs, k, s) == IF k < Len(cs) THEN cs[k + 1].state ELSE s
\* call k read a part of a comment: it found the continuation of a comment
\* in place, or put it there
InComment(cs, k, s) ==
    IsComment(cs[k].state.tokenize) \/ IsComment(After(cs, k, s).tokenize)
\* what a call in a comment does: the token has the style of a comment, the
\* counters and the open HTML tags stay; the call that opens the comment
\* suspends the continuation in place, the calls in it leave the stack
\* alone, and the call that reads `-->` puts the suspended one back
CommentCall(cs, k, s) ==
    LET c == cs[k]
        pre == c.state
        post == After(cs, k, s)
    IN  /\ \E i \in DOMAIN c.style : c.style[i] = tags.comment
        /\ Frame(post) = Frame(pre)
        /\ IF ~IsComment(pre.tokenize)
           THEN post.stack = Append(pre.stack, c.cont)
           ELSE \/ /\ post.tokenize = pre.tokenize
                   /\ post.stack = pre.stack
                   /\ ~LitAt(line, c.to - 3, CommentClose)
                \/ /\ post.tokenize = LastOf(pre.stack)
                   /\ post.stack = Front(pre.stack)
                   /\ LitAt(line, c.to - 3, CommentClose)

AtBraces(cs, k) ==
    /\ cs[k].wiki
    /\ LitAt(line, cs[k].from, <<"{", "{">>)
    /\ Ch(line, cs[k].from + 2) # "{"
\* a name is in the registry of functions: its lower case in the map that
\* ignores case, or the name as it is in the map that does not
Registered(n) ==
    toLowerCase(n) \in functionSynonyms[1] \/ n \in functionSynonyms[2]
\* the text behind the braces at p of line s: white space, then a name
NameFrom(s, p) == p + 2 + Run(s, p + 2, Space)
NameTo(s, p) ==
    NameFrom(s, p)
    + Run(s, NameFrom(s, p),
          Not({" ", "}", "[", "]", "<", "{", "'", "|", "&", ":"}))
\* the name behind the braces at p is one of the registry
KnownName(s, p) ==
    /\ NameTo(s, p) > NameFrom(s, p)
    /\ Registered(Slice(s, NameFrom(s, p), NameTo(s, p)))
\* the name behind the braces at p is followed by `:`, or after white space
\* by `}}` or by the end of the line
ClosedOrAlone(s, p) ==
    LET e == NameTo(s, p)
        w == e + Run(s, e, Space)
    IN  \/ Ch(s, e) = ":"
        \/ LitAt(s, w, <<"}", "}">>)
        \/ w >= Len(s)
\* ... or after white space by one `}` that ends the line
OneBraceEnds(s, p) ==
    LET e == NameTo(s, p)
        w == e + Run(s, e, Space)
    IN  Ch(s, e) # ":" /\ Ch(s, w) = "}" /\ w + 1 >= Len(s)
\* call k opened a parser function: one more extension, as many templates
\* and links, the continuation in place pushed, the name to be read
OpensFunction(cs, k, s) ==
    LET pre == cs[k].state
        post == After(cs, k, s)
    IN  /\ post.nExt = pre.nExt + 1
        /\ post.nTemplate = pre.nTemplate
        /\ post.nLink = pre.nLink
        /\ post.inHtmlTag = pre.inHtmlTag
        /\ post.stack = Append(pre.stack, cs[k].cont)
        /\ post.tokenize.fn = "inParserFunctionName"
\* call k opened a template: one more template, as many extensions and
\* links, the continuation in place pushed, the page name to be read
OpensTemplate(cs, k, s) ==
    LET pre == cs[k].state
        post == After(cs, k, s)
    IN  /\ post.nTemplate = pre.nTemplate + 1
        /\ post.nExt = pre.nExt
        /\ post.nLink = pre.nLink
        /\ post.inHtmlTag = pre.inHtmlTag
        /\ post.stack = Append(pre.stack, cs[k].cont)
        /\ post.tokenize.fn = "eatTemplatePageName"
\* the braces at p open a parser function when F says so of the text
\* behind them, and a template when it does not
BracesOpen(cs, k, s, F(_, _)) ==
    IF F(line, cs[k].from)
    THEN OpensFunction(cs, k, s)
    ELSE OpensTemplate(cs, k, s)
IsFunctionAsStated(s, p) ==
    \/ Ch(s, NameFrom(s, p)) = "#"
    \/ KnownName(s, p) /\ ClosedOrAlone(s, p)
IsFunction(s, p) ==
    \/ Ch(s, NameFrom(s, p)) = "#"
    \/ KnownName(s, p) /\ (ClosedOrAlone(s, p) \/ OneBraceEnds(s, p))

C37_MismatchLeavesOpenTags ==
    [][OneCall /\ InWikiText
         /\ toLowerCase(CloseTagName) \in permittedHtmlTags
         /\ toLowerCase(CloseTagName) # Top(state.inHtmlTag)
         => /\ style' = <<tags.error>>
            /\ state'.inHtmlTag = state.inHtmlTag
            /\ state'.tokenize = state.tokenize
            /\ state'.stack = state.stack]_vars

\* the pairs of balanced templates with arguments that touch: the closing
\* bracket of the first is followed at once by the opening bracket of the
\* second, and both brackets have one style
Adjacent(d) ==
    {p \in Balanced(d) \X Balanced(d) :
        /\ Closing(d, p[1]) + 1 = p[2]
        /\ d.tokens[Closing(d, p[1])].to = d.tokens[p[2]].from
        /\ d.tokens[Closing(d, p[1])].name = d.tokens[p[2]].name}

\* C38: of two balanced templates with arguments that touch, foldable
\* anchored at a span of either template returns the range of that
\* template: from the end of its first own delimiter to the start of its
\* own closing bracket
C38_AdjacentTemplatesFold ==
    Let(Document, LAMBDA d :
        \A p \in Adjacent(d) : \A i \in 1..2 : \A k \in Own(d, p[i]) :
            FoldAt(d, k) = Arguments(d, p[i]))

\* a range was returned
IsRange(r) == r \notin {NoRange, Thrown}
\* the ranges foldable returns at the positions and at the spans of the
\* document d, and those foldableLine returns at its lines
RangesOf(d) ==
    {r \in {foldable(d.tree, d.text, pos) : pos \in 0..Len(d.text)}
             \cup {foldableNode(d.tree, d.text, i) : i \in DOMAIN d.tree}
             \cup {foldableLine(DocLines, d.tree, k) : k \in DOMAIN DocLines} :
        IsRange(r)}

LaterText(k) == {j \in (k + 1)..Len(doc) : trim(doc[j].text) # <<>>}

\* C40: foldOnIndent returns a range for a line only if the line is not
\* blank and the first line behind it that is not blank is indented deeper
\* than it, blank lines in between or not
C40_FoldsOnlyDeeper ==
    view.command = "foldOnIndent" /\ view.effects # <<>> =>
        /\ trim(doc[view.clicked].text) # <<>>
        /\ LaterText(view.clicked) # {}
        /\ getIndent(doc[First(LaterText(view.clicked))].text, view.tabSize)
              > getIndent(doc[view.clicked].text, view.tabSize)
====
